---- MODULE Spec2Model ----
(***************************************************************************)
(* Model of jaeger-s3's buffered partitioned parquet writer                *)
(* (plugin/s3spanstore/parquet_writer.go), of the deduplicating wrapper    *)
(* (plugin/s3spanstore/dedupe_parquet_writer.go), of the Writer that       *)
(* feeds both, and of the reader's query cache                             *)
(* (plugin/s3spanstore/athena_query_cache.go, reader.go).                  *)
(*                                                                         *)
(* Spec        one ParquetWriter: concurrent Write callers, the rotation   *)
(*             goroutine with its ticker, and one Close caller.            *)
(* SpecDedupe  one DedupeParquetWriter called sequentially, in front of a  *)
(*             wrapped writer whose Write may fail.                        *)
(* SpecWriter  one Writer: WriteSpan calls one after the other, each with  *)
(*             its two goroutines, then Close.                             *)
(* SpecReader  one cached reader call: Lookup with its page fetcher and    *)
(*             its lookup worker, then the query engine calls of           *)
(*             queryAthenaCached.                                          *)
(* SpecReaderFair  SpecReader with the polling loop scheduled fairly.       *)
(* SpecQuery   one reader operation (GetOperations, GetTrace,              *)
(*             FindTraceIDs, FindTraces) with the result rows it decodes.  *)
(* SpecReaderTwice  two GetServices calls one after the other, with time   *)
(*             passing in between.                                         *)
(* SpecPrefetch  the dependencies prefetcher: Start, its ticker, its       *)
(*             goroutine and Stop.                                         *)
(* SpecPlugin  one S3Plugin: the span writer, the operations writer and    *)
(*             the prefetcher running, and Close (plugin/plugin.go).       *)
(* SpecDedupeConcurrent  two goroutines in DedupeParquetWriter.Write, each  *)
(*             followed from its Get to its Add.                           *)
(* SpecWriteSteps  one ParquetWriter with Write, getParquetWriter and the  *)
(*             rotation followed statement by statement.                   *)
(***************************************************************************)
EXTENDS Integers, Sequences, FiniteSets, TLC

\* ------------------------------------------------------------- bounds
MaxWrites   == 3   \* Write calls on the ParquetWriter
MaxTicks    == 1   \* ticks the ticker delivers
MaxCalls    == 3   \* Write calls on the DedupeParquetWriter
MaxTime     == 3   \* row-times are 0..MaxTime
MaxDedupeDuration == 2   \* dedupeDuration is 1..MaxDedupeDuration
MaxCacheSize == 2   \* dedupeCacheSize is 1..MaxCacheSize
MaxPages    == 5   \* pages a listing of the work group has at most
MaxSpans    == 2   \* WriteSpan calls on the Writer
MaxIntervals == 3  \* ticks of the prefetcher's ticker

\* S3PartitionKey values of the row-times written: two hours
Datehours == {"2017/01/26/16", "2017/01/26/17"}

\* the nil *ParquetRef of an absent map entry
NoWriter == 0

VARIABLES
    \* --- ParquetWriter
    parquetWriterRefs,  \* w.parquetWriterRefs: datehour -> writer id, NoWriter when absent
    writers,            \* every ParquetRef ever opened, by id (heap of columnar writers)
    bufferMutex,        \* w.bufferMutex: "free" or its holder
    tickerStopped,      \* w.ticker.Stop() was called
    tickPending,        \* a tick sits in w.ticker.C (capacity 1)
    ticks,              \* ticks delivered so far
    rotPc,              \* rotation goroutine: "select", "rotate", "closing", "exited"
    rotBatch,           \* writerRefs local of rotateParquetWriters still to be closed
    closePc,            \* Close caller: "idle", "send", "lock", "closing", "returned"
    closeBatch,         \* entries Close still has to visit
    closeResult,        \* "none", "ok", "err"
    nWrites,            \* Write calls made
    accepted,           \* ids of the rows whose Write returned nil before Close was called
    swaps,              \* map swaps performed by rotations
    \* --- DedupeParquetWriter
    dedupeCache,        \* w.dedupeCache: LRU, most recently used first
    dedupeDuration,     \* w.dedupeDuration
    dedupeCacheSize,    \* size given to lru.New
    nCalls,             \* Write calls made
    lastCall,           \* what the last Write call saw and did
    prevCall,           \* the call before it
    delegatedTimes,     \* key -> row-times of the rows the wrapped writer accepted
    delegatedTwice,     \* keys with two accepted rows of the same row-time
    lastAccepted,       \* key -> row-time of its latest accepted row, -1 when none
    evictedKeys,        \* keys the LRU evicted at least once
    \* --- AthenaQueryCache.Lookup
    lookupPc,           \* "idle", "running", "returned"
    lookupKey,          \* key
    ttlTime,            \* time.Now().Add(-ttl)
    firstPage,          \* paginator: no page was requested yet
    nextToken,          \* paginator: the last page carried a NextToken
    pagesListed,        \* pages the engine returned
    startedListed,      \* executions of the reader listed so far
    fetchPc,            \* page fetcher: "idle", "next", "send", "done", "failed"
    output,             \* ids of the page the fetcher is about to send
    queryExecutionIdChunks,  \* the buffered channel
    chunksClosed,       \* close(queryExecutionIdChunks) ran
    fetchCancelled,     \* fetchCtx is done
    workerPc,           \* lookup worker: "idle", "select", "done", "failed"
    latestQueryExecution,    \* NoExecution while nil
    examined,           \* the batch the worker looped over
    unprocessed,        \* BatchGetQueryExecution left ids unprocessed
    lookupErr,          \* first error of the errgroup: "none", "list", "batch", "unprocessed"
    lookupResult,       \* execution Lookup returned
    \* --- Reader and the query engine
    now,                \* the clock
    servicesQueryTTL,   \* r.servicesQueryTTL
    dependenciesQueryTTL,    \* r.dependenciesQueryTTL
    listingPages,       \* pages the listing of the work group has at most
    callsLeft,          \* reader calls still to be made
    engineStarted,      \* executions the reader started, newest first
    engineOther,        \* the execution of another client the reader waits for
    readerPc,           \* "idle", "lookup", "start", "wait", "fetch", "returned"
    readerOp,           \* operation running
    startCalls,         \* successful StartQueryExecution calls
    callStarted,        \* id the running call started, 0 when none
    queryExecution,     \* queryExecution of waitAndFetchQueryResult
    delivered,          \* rows returned to the caller
    readerErr,          \* "none" or the failing step
    callLog,            \* one entry per returned reader call
    \* --- Reader operations
    maxSpanAge,         \* r.maxSpanAge
    maxTraceDuration,   \* r.maxTraceDuration
    query,              \* parameters of the running operation
    phase,              \* FindTraces: 1 while the trace ids are found, then 2
    windows,            \* datehour BETWEEN bounds of the queries the call built
    traceIDs,           \* FindTraces: traceIDs of findTraceIDs
    enginePages,        \* result pages the engine returned to fetchQueryResult
    opResult,           \* what the operation returned
    \* --- Writer
    wsPc,               \* "idle", "running" (a WriteSpan call), "closed"
    wsSpan,             \* span of the running WriteSpan call
    operationsPc,       \* its first goroutine: "idle", "run", "ok", "err"
    spansPc,            \* its second goroutine
    spansOpen,          \* spans ParquetWriter: datehour -> rows of the open writer
    operationsOpen,     \* operations ParquetWriter, likewise
    wsObjects,          \* objects uploaded by Close
    wsCalls,            \* WriteSpan calls that returned
    wsLeft,             \* WriteSpan calls still to be made
    wsFirst,            \* span of the first call
    wsAllSame,          \* every call so far carried the span of the first
    wsAllOk,            \* every call so far returned nil
    wsCloseOk,          \* Close returned nil
    \* --- DependenciesPrefetch
    enabled,            \* d.enabled
    prefetchStarted,    \* Start was called
    prefetchPc,         \* its goroutine: "none", "sleep", "query", "select", "exited"
    prefetchTickPending,     \* a tick sits in d.ticker.C (capacity 1)
    prefetchTickerStopped,   \* d.ticker.Stop() was called
    intervals,          \* ticks of d.ticker so far: intervals elapsed
    called,             \* GetDependencies calls the prefetcher made
    calledReturned,     \* those that returned
    stopPc,             \* Stop caller: "idle", "send", "returned"
    calledAtStop,       \* value of called when Stop was called
    overrun,            \* a tick came while a prefetch or an earlier tick was pending
    \* --- S3Plugin.Close
    pluginPc,           \* Close caller: "idle", "waiting" (in g.Wait), "returned"
    pluginErr,          \* Close returned a non-nil error
    closeFound,         \* what was in flight when Close was called
    operationsRotPc,    \* operations ParquetWriter, rotation goroutine: "select", "rotating", "exited"
    operationsClosePc,  \* its Close: "idle", "send", "ok", "err"
    \* --- calls followed statement by statement
    dedupeCallers,      \* concurrent callers of DedupeParquetWriter.Write, by caller
    writeCall,          \* the ParquetWriter.Write call that holds w.bufferMutex
    lastWrite           \* the Write call that returned last

pwVars == <<parquetWriterRefs, writers, bufferMutex, tickerStopped, tickPending,
            ticks, rotPc, rotBatch, closePc, closeBatch, closeResult,
            nWrites, accepted, swaps>>

ddVars == <<dedupeCache, dedupeDuration, dedupeCacheSize, nCalls, lastCall,
            prevCall, delegatedTimes, delegatedTwice, lastAccepted,
            evictedKeys>>

lookupVars == <<lookupPc, lookupKey, ttlTime, firstPage, nextToken, pagesListed,
                startedListed, fetchPc, output, queryExecutionIdChunks,
                chunksClosed, fetchCancelled, workerPc, latestQueryExecution,
                examined, unprocessed, lookupErr, lookupResult>>

readerVars == <<now, servicesQueryTTL, dependenciesQueryTTL, listingPages,
                callsLeft, engineStarted, engineOther, readerPc, readerOp,
                startCalls, callStarted, queryExecution, delivered, readerErr,
                callLog>>

opVars == <<maxSpanAge, maxTraceDuration, query, phase, windows, traceIDs,
            enginePages, opResult>>

qcVars == <<lookupVars, readerVars, opVars>>

wsVars == <<wsPc, wsSpan, operationsPc, spansPc, spansOpen, operationsOpen,
            wsObjects, wsCalls, wsLeft, wsFirst, wsAllSame, wsAllOk, wsCloseOk>>

pfVars == <<enabled, prefetchStarted, prefetchPc, prefetchTickPending,
            prefetchTickerStopped, intervals, called, calledReturned, stopPc,
            calledAtStop, overrun>>

plVars == <<pluginPc, pluginErr, closeFound, operationsRotPc, operationsClosePc>>

pluginVars == <<pfVars, plVars>>

stepVars == <<dedupeCallers, writeCall, lastWrite>>

vars == <<pwVars, ddVars, qcVars, wsVars, pluginVars, stepVars>>

\* ===================================================== ParquetWriter

\* NewParquetWriter: empty map, running ticker, rotation goroutine in its select
InitParquetWriter ==
    /\ parquetWriterRefs = [d \in Datehours |-> NoWriter]
    /\ writers = <<>>
    /\ bufferMutex = "free"
    /\ tickerStopped = FALSE
    /\ tickPending = FALSE
    /\ ticks = 0
    /\ rotPc = "select"
    /\ rotBatch = {}
    /\ closePc = "idle"
    /\ closeBatch = {}
    /\ closeResult = "none"
    /\ nWrites = 0
    /\ accepted = {}
    /\ swaps = 0

\* the ParquetRef a successful getParquetWriter stores
NewParquetRef(datehour) ==
    [datehour |-> datehour,
     rows     |-> <<>>,
     stopped  |-> FALSE,        \* WriteStop succeeded
     closed   |-> FALSE,        \* parquetWriteFile.Close succeeded
     swapEpoch |-> 0,           \* which swap took it out of the map (0: none)
     abandoned |-> FALSE,       \* its batch's closing returned early on an error
     openedIn |-> closePc]      \* phase of Close in which it was opened

\* getParquetWriter line 86: an entry exists for the partition
HasParquetWriterAlwaysOpen(refs, datehour) == FALSE
HasParquetWriter(refs, datehour) == refs[datehour] # NoWriter

\* rotateParquetWriters line 133: the map Write sees after the swap
SwappedInRefsKept == parquetWriterRefs
SwappedInRefs == [d \in Datehours |-> NoWriter]

\* the writers a map holds (range over the map)
RefsOf(refs) == {refs[d] : d \in Datehours} \ {NoWriter}

\* closeParquetWriters line 174 in Close: the entries Close visits
CloseTargetsNone == {}
CloseTargets == RefsOf(parquetWriterRefs)

\* closeParquetWriter: both WriteStop and file Close succeeded
ClosedRefStillOpen(ref) == ref
ClosedRef(ref) == [ref EXCEPT !.stopped = TRUE, !.closed = TRUE]

\* closeParquetWriter: WriteStop failed (line 115-117), the file is not closed
StopFailedRef(ref) == [ref EXCEPT !.abandoned = TRUE]

\* closeParquetWriter: WriteStop succeeded, file Close failed (line 121-123)
FileCloseFailedRef(ref) == [ref EXCEPT !.stopped = TRUE, !.abandoned = TRUE]

Finalized(ref) == ref.stopped /\ ref.closed

\* the ticker delivers a tick; a tick is dropped while one is pending
Tick ==
    /\ ~tickerStopped
    /\ ~tickPending
    /\ ticks < MaxTicks
    /\ tickPending' = TRUE
    /\ ticks' = ticks + 1
    /\ UNCHANGED <<parquetWriterRefs, writers, bufferMutex, tickerStopped, rotPc,
                   rotBatch, closePc, closeBatch, closeResult, nWrites,
                   accepted, swaps>>
    /\ UNCHANGED <<ddVars, qcVars, wsVars, pluginVars, stepVars>>

\* goroutine, case <-w.ticker.C
RotTick ==
    /\ rotPc = "select"
    /\ tickPending
    /\ tickPending' = FALSE
    /\ rotPc' = "rotate"
    /\ UNCHANGED <<parquetWriterRefs, writers, bufferMutex, tickerStopped, ticks,
                   rotBatch, closePc, closeBatch, closeResult, nWrites,
                   accepted, swaps>>
    /\ UNCHANGED <<ddVars, qcVars, wsVars, pluginVars, stepVars>>

\* goroutine, case <-w.done: the rendezvous with Close's w.done <- true
RotDone ==
    /\ rotPc = "select"
    /\ closePc = "send"
    /\ rotPc' = "exited"
    /\ closePc' = "lock"
    /\ UNCHANGED <<parquetWriterRefs, writers, bufferMutex, tickerStopped, tickPending,
                   ticks, rotBatch, closeBatch, closeResult, nWrites,
                   accepted, swaps>>
    /\ UNCHANGED <<ddVars, qcVars, wsVars, pluginVars, stepVars>>

\* rotateParquetWriters lines 130-135: lock, swap the map, unlock
RotSwap ==
    /\ rotPc = "rotate"
    /\ bufferMutex = "free"
    /\ rotBatch' = RefsOf(parquetWriterRefs)
    /\ writers' = [i \in 1..Len(writers) |->
                     IF i \in RefsOf(parquetWriterRefs)
                     THEN [writers[i] EXCEPT !.swapEpoch = swaps + 1]
                     ELSE writers[i]]
    /\ parquetWriterRefs' = SwappedInRefs
    /\ swaps' = swaps + 1
    /\ rotPc' = "closing"
    /\ UNCHANGED <<bufferMutex, tickerStopped, tickPending, ticks, closePc,
                   closeBatch, closeResult, nWrites, accepted>>
    /\ UNCHANGED <<ddVars, qcVars, wsVars, pluginVars, stepVars>>

\* closeParquetWriters on the swapped-out map, one iteration of its range loop
\* (Go's map iteration order is unspecified: any remaining entry may come next)
RotCloseOne ==
    /\ rotPc = "closing"
    /\ \E id \in rotBatch :
         \/ /\ writers' = [writers EXCEPT ![id] = ClosedRef(writers[id])]
            /\ rotBatch' = rotBatch \ {id}
            /\ UNCHANGED rotPc
         \/ \E failed \in {StopFailedRef(writers[id]), FileCloseFailedRef(writers[id])} :
              \* the error is returned at once and logged by the goroutine
              /\ writers' = [i \in 1..Len(writers) |->
                               IF i = id THEN failed
                               ELSE IF i \in rotBatch
                                    THEN [writers[i] EXCEPT !.abandoned = TRUE]
                                    ELSE writers[i]]
              /\ rotBatch' = {}
              /\ rotPc' = "select"
    /\ UNCHANGED <<parquetWriterRefs, bufferMutex, tickerStopped, tickPending, ticks,
                   closePc, closeBatch, closeResult, nWrites, accepted, swaps>>
    /\ UNCHANGED <<ddVars, qcVars, wsVars, pluginVars, stepVars>>

\* closeParquetWriters returned nil: back to the select
RotCloseEnd ==
    /\ rotPc = "closing"
    /\ rotBatch = {}
    /\ rotPc' = "select"
    /\ UNCHANGED <<parquetWriterRefs, writers, bufferMutex, tickerStopped, tickPending,
                   ticks, rotBatch, closePc, closeBatch, closeResult,
                   nWrites, accepted, swaps>>
    /\ UNCHANGED <<ddVars, qcVars, wsVars, pluginVars, stepVars>>

\* the row a Write call appends, with the moment it was written
NewRow == [id |-> nWrites + 1, epoch |-> swaps, phase |-> closePc]

\* ParquetWriter.Write lines 150-165, under w.bufferMutex from entry to return
Write ==
    /\ bufferMutex = "free"
    /\ nWrites < MaxWrites
    /\ nWrites' = nWrites + 1
    /\ \E datehour \in Datehours :
         LET hit    == HasParquetWriter(parquetWriterRefs, datehour)
             id     == IF hit THEN parquetWriterRefs[datehour] ELSE Len(writers) + 1
             opened == IF hit THEN writers ELSE Append(writers, NewParquetRef(datehour))
             refs   == [parquetWriterRefs EXCEPT ![datehour] = id]
         IN
         \/ \* getParquetWriter fails (lines 90-99): NewS3FileWriterWithClient fails,
            \* or NewParquetWriter fails and the file is closed; no entry is stored
            /\ ~hit
            /\ UNCHANGED <<parquetWriterRefs, writers, accepted>>
         \/ \* parquetWriter.Write(row) succeeds (line 161)
            /\ writers' = [opened EXCEPT ![id].rows = Append(@, NewRow)]
            /\ parquetWriterRefs' = refs
            /\ accepted' = IF closePc = "idle" THEN accepted \cup {nWrites + 1} ELSE accepted
         \/ \* parquetWriter.Write(row) fails (lines 161-163)
            /\ writers' = opened
            /\ parquetWriterRefs' = refs
            /\ UNCHANGED accepted
    /\ UNCHANGED <<bufferMutex, tickerStopped, tickPending, ticks, rotPc, rotBatch,
                   closePc, closeBatch, closeResult, swaps>>
    /\ UNCHANGED <<ddVars, qcVars, wsVars, pluginVars, stepVars>>

\* Close line 169: where Close is after w.ticker.Stop()
AfterTickerStopLock == "lock"
AfterTickerStop == "send"

\* Close line 168: w.ticker.Stop(); the caller then blocks in w.done <- true
CloseStart ==
    /\ closePc = "idle"
    /\ tickerStopped' = TRUE
    /\ closePc' = AfterTickerStop
    /\ UNCHANGED <<parquetWriterRefs, writers, bufferMutex, tickPending, ticks, rotPc,
                   rotBatch, closeBatch, closeResult, nWrites, accepted, swaps>>
    /\ UNCHANGED <<ddVars, qcVars, wsVars, pluginVars, stepVars>>

\* Close line 171: w.bufferMutex.Lock(), then closeParquetWriters(w.parquetWriterRefs)
CloseLock ==
    /\ closePc = "lock"
    /\ bufferMutex = "free"
    /\ bufferMutex' = "close"
    /\ closeBatch' = CloseTargets
    /\ closePc' = "closing"
    /\ UNCHANGED <<parquetWriterRefs, writers, tickerStopped, tickPending, ticks, rotPc,
                   rotBatch, closeResult, nWrites, accepted, swaps>>
    /\ UNCHANGED <<ddVars, qcVars, wsVars, pluginVars, stepVars>>

\* closeParquetWriters in Close, one iteration; the map itself is left as it is
CloseOne ==
    /\ closePc = "closing"
    /\ \E id \in closeBatch :
         \/ /\ writers' = [writers EXCEPT ![id] = ClosedRef(writers[id])]
            /\ closeBatch' = closeBatch \ {id}
            /\ UNCHANGED <<closePc, closeResult, bufferMutex>>
         \/ \E failed \in {StopFailedRef(writers[id]), FileCloseFailedRef(writers[id])} :
              \* the error is returned to the caller of Close; the deferred Unlock runs
              /\ writers' = [i \in 1..Len(writers) |->
                               IF i = id THEN failed
                               ELSE IF i \in closeBatch
                                    THEN [writers[i] EXCEPT !.abandoned = TRUE]
                                    ELSE writers[i]]
              /\ closeBatch' = {}
              /\ closeResult' = "err"
              /\ bufferMutex' = "free"
              /\ closePc' = "returned"
    /\ UNCHANGED <<parquetWriterRefs, tickerStopped, tickPending, ticks, rotPc, rotBatch,
                   nWrites, accepted, swaps>>
    /\ UNCHANGED <<ddVars, qcVars, wsVars, pluginVars, stepVars>>

\* Close returns nil
CloseEnd ==
    /\ closePc = "closing"
    /\ closeBatch = {}
    /\ closeResult' = "ok"
    /\ bufferMutex' = "free"
    /\ closePc' = "returned"
    /\ UNCHANGED <<parquetWriterRefs, writers, tickerStopped, tickPending, ticks, rotPc,
                   rotBatch, closeBatch, nWrites, accepted, swaps>>
    /\ UNCHANGED <<ddVars, qcVars, wsVars, pluginVars, stepVars>>

\* ============================================== DedupeParquetWriter

\* row.DedupeKey() of the rows written (the operations of the tests)
DedupeKeys == {"a", "b"}
RowTimes == 0..MaxTime
DedupeDurations == 1..MaxDedupeDuration
DedupeCacheSizes == 1..MaxCacheSize

\* lru.Cache (hashicorp/golang-lru): a sequence of entries, most recently used first
CacheHas(cache, key) == \E i \in 1..Len(cache) : cache[i].key = key
CacheIndex(cache, key) == CHOOSE i \in 1..Len(cache) : cache[i].key = key
CacheValue(cache, key) == cache[CacheIndex(cache, key)].next
CacheWithout(cache, key) == SelectSeq(cache, LAMBDA e : e.key # key)

\* Cache.Get: a hit moves the entry to the front
CacheGet(cache, key) ==
    IF CacheHas(cache, key)
    THEN <<cache[CacheIndex(cache, key)]>> \o CacheWithout(cache, key)
    ELSE cache

\* Cache.Add: insert or update at the front, then evict the oldest beyond size
CacheAdd(cache, key, next, size) ==
    LET put == <<[key |-> key, next |-> next]>> \o CacheWithout(cache, key)
    IN IF Len(put) > size THEN SubSeq(put, 1, size) ELSE put

CacheKeys(cache) == {cache[i].key : i \in 1..Len(cache)}

\* Write line 43: the row falls into the key's window and is dropped
SuppressedAfter(found, rowTime, next) == found /\ rowTime <= next
SuppressedNever(found, rowTime, next) == FALSE
Suppressed(found, rowTime, next) == found /\ rowTime < next

\* Write line 57: the next-accept-time cached after an accepted row
NextWriteTimeTwice(rowTime) == rowTime + dedupeDuration + dedupeDuration
NextWriteTime(rowTime) == rowTime + dedupeDuration

\* testDedupeRewriteBufferDuration, in the unit of the row-times
DedupeRewriteBufferDuration == 5

\* maxBufferUntil of a call: the row-time itself (as in the tests) or later
MaxBufferUntils(rowTime) == {rowTime, rowTime + 1}

\* Write lines 47-52: the maxBufferUntil handed to the wrapped writer
MaxBufferUntilCachedSame(found, maxBufferUntil) == maxBufferUntil
MaxBufferUntilCached(found, maxBufferUntil) ==
    IF ~found THEN maxBufferUntil ELSE maxBufferUntil + DedupeRewriteBufferDuration

\* Write lines 54-56: the cache when the wrapped Write has failed
FailedWriteCacheAdded(looked, added) == added
FailedWriteCache(looked, added) == looked

\* no call of the wrapped writer: nothing was forwarded
NoForward == 0 - 1

NoCall == [key |-> "", rowTime |-> 0, found |-> FALSE, next |-> 0,
           prevAccepted |-> -1, delegated |-> FALSE, rewrite |-> FALSE, ok |-> FALSE,
           maxBufferUntil |-> 0, forwarded |-> NoForward]

InitDedupeVars ==
    /\ dedupeCache = <<>>
    /\ nCalls = 0
    /\ lastCall = NoCall
    /\ prevCall = NoCall
    /\ delegatedTimes = [k \in DedupeKeys |-> {}]
    /\ delegatedTwice = {}
    /\ lastAccepted = [k \in DedupeKeys |-> -1]
    /\ evictedKeys = {}

\* the wrapper is not exercised under Spec
InitDedupeIdle ==
    /\ InitDedupeVars
    /\ dedupeDuration = 1
    /\ dedupeCacheSize = 1

\* NewDedupeParquetWriter: lru.New(dedupeCacheSize) needs a positive size
InitDedupe ==
    /\ InitDedupeVars
    /\ dedupeDuration \in DedupeDurations
    /\ dedupeCacheSize \in DedupeCacheSizes

\* DedupeParquetWriter.Write lines 41-60
DedupeWrite ==
    /\ nCalls < MaxCalls
    /\ nCalls' = nCalls + 1
    /\ prevCall' = lastCall
    /\ \E key \in DedupeKeys, rowTime \in RowTimes :
       \E maxBufferUntil \in MaxBufferUntils(rowTime) :
         LET found  == CacheHas(dedupeCache, key)
             next   == IF found THEN CacheValue(dedupeCache, key) ELSE 0
             looked == CacheGet(dedupeCache, key)
             call   == [key |-> key, rowTime |-> rowTime, found |-> found, next |-> next,
                        prevAccepted |-> lastAccepted[key],
                        delegated |-> FALSE, rewrite |-> FALSE, ok |-> TRUE,
                        maxBufferUntil |-> maxBufferUntil, forwarded |-> NoForward]
             sent   == MaxBufferUntilCached(found, maxBufferUntil)
             added  == CacheAdd(looked, key, NextWriteTime(rowTime), dedupeCacheSize)
         IN
         IF Suppressed(found, rowTime, next)
         THEN \* line 44: return nil
              /\ dedupeCache' = looked
              /\ lastCall' = call
              /\ UNCHANGED <<delegatedTimes, delegatedTwice, lastAccepted, evictedKeys>>
         ELSE \/ \* the wrapped Write fails (lines 54-56): the cache is not updated
                 /\ dedupeCache' = FailedWriteCache(looked, added)
                 /\ lastCall' = [call EXCEPT !.delegated = TRUE, !.rewrite = found,
                                             !.ok = FALSE, !.forwarded = sent]
                 /\ UNCHANGED <<delegatedTimes, delegatedTwice, lastAccepted, evictedKeys>>
              \/ \* the wrapped Write succeeds, then dedupeCache.Add (line 57)
                 /\ dedupeCache' = added
                 /\ lastCall' = [call EXCEPT !.delegated = TRUE, !.rewrite = found,
                                             !.forwarded = sent]
                 /\ delegatedTimes' = [delegatedTimes EXCEPT ![key] = @ \cup {rowTime}]
                 /\ delegatedTwice' = IF rowTime \in delegatedTimes[key]
                                      THEN delegatedTwice \cup {key}
                                      ELSE delegatedTwice
                 /\ lastAccepted' = [lastAccepted EXCEPT ![key] = rowTime]
                 /\ evictedKeys' = evictedKeys \cup (CacheKeys(looked) \ CacheKeys(added))
    /\ UNCHANGED <<dedupeDuration, dedupeCacheSize>>
    /\ UNCHANGED <<pwVars, qcVars, wsVars, pluginVars, stepVars>>

\* ================================================== specifications

\* ================================================== AthenaQueryCache

\* make(chan []string, 3): capacity of queryExecutionIdChunks
ChunkCapacity == 3

\* words of the query texts; a text is the sequence of its words
ServicesLookup == <<"SELECT service_name, operation_name, span_kind FROM", "WHERE">>
ServicesQuery == ServicesLookup \o <<"datehour BETWEEN", "GROUP BY 1, 2, 3 ORDER BY 1, 2, 3">>
DependenciesLookup == <<"WITH spans_with_reference">>
DependenciesQuery == DependenciesLookup \o <<"s AS (", "datehour BETWEEN", "GROUP BY 1, 2">>
TraceQuery == <<"SELECT DISTINCT span_payload FROM", "WHERE", "datehour BETWEEN", "trace_id = ?">>

TraceIDsQuery == <<"SELECT trace_id FROM", "WHERE", "service_name = ?", "datehour BETWEEN",
                   "start_time BETWEEN", "GROUP BY 1 LIMIT">>
SpansQuery == <<"SELECT DISTINCT trace_id, span_payload FROM", "WHERE", "datehour BETWEEN",
                "trace_id IN">>

ReaderOps == {"GetServices", "GetDependencies"}
\* GetServices and GetOperations both run getServicesAndOperations
ServicesOps == {"GetServices", "GetOperations"}
\* numbers of ids a listing page can hold (MaxResults is 50 in the code)
BatchLengths == {0, 1, 2}

\* lookupString and queryString a reader operation hands to queryAthenaCached
LookupStringOf(op) == IF op \in ServicesOps THEN ServicesLookup ELSE DependenciesLookup
\* queryString of the query an operation runs next (FindTraces runs two)
QueryStringOf(op) ==
    IF op \in ServicesOps THEN ServicesQuery
    ELSE IF op = "GetDependencies" THEN DependenciesQuery
    ELSE IF op = "GetTrace" THEN TraceQuery
    ELSE IF op = "FindTraces" /\ phase = 2 THEN SpansQuery
    ELSE TraceIDsQuery
\* ttl of the cached operations; the other operations have none
TtlOf(op) ==
    IF op \in ServicesOps THEN servicesQueryTTL
    ELSE IF op = "GetDependencies" THEN dependenciesQueryTTL
    ELSE 0

\* nil *types.QueryExecution
NoExecution == [id |-> 0, state |-> "", sub |-> 0, query |-> <<>>, completed |-> FALSE]

\* strings.Contains(*v.Query, key)
ContainsAlways(s, sub) == TRUE
Contains(s, sub) ==
    \E i \in 0..(Len(s) - Len(sub)) : SubSeq(s, i + 1, i + Len(sub)) = sub

\* v.Status.SubmissionDateTime.Before(ttlTime)
BeforeOrEqual(t, u) == t <= u
BeforeNever(t, u) == FALSE
Before(t, u) == t < u

\* v.Status.State == "FAILED" || v.Status.State == "CANCELLED"
UnsuccessfulFailedOnly(state) == state = "FAILED"
Unsuccessful(state) == state = "FAILED" \/ state = "CANCELLED"

\* the loop over result.QueryExecutions: the execution latestQueryExecution
\* ends up pointing to, and whether fetchCancelFunc was called
RECURSIVE ScanBatch(_, _, _, _)
ScanBatch(batch, i, key, ttlT) ==
    IF i > Len(batch)
    THEN [latest |-> NoExecution, cancel |-> FALSE]
    ELSE LET v == batch[i]
             rest == ScanBatch(batch, i + 1, key, ttlT)
         IN  IF Before(v.sub, ttlT)
             THEN [rest EXCEPT !.cancel = TRUE]
             ELSE IF Unsuccessful(v.state)
             THEN rest
             ELSE IF Contains(v.query, key)
             THEN [latest |-> v, cancel |-> TRUE]
             ELSE rest

\* executions of other clients of the work group, as BatchGetQueryExecution
\* describes them during a Lookup with the given ttlTime
OtherExecutions(id, ttlT, nowT) ==
    {[id |-> id, state |-> s, sub |-> nowT, query |-> ServicesQuery,
      completed |-> (s # "RUNNING")] :
        s \in {"SUCCEEDED", "RUNNING", "FAILED", "CANCELLED"}}
    \cup {[id |-> id, state |-> "SUCCEEDED", sub |-> t, query |-> ServicesQuery,
           completed |-> TRUE] : t \in {ttlT - 1, ttlT}}
    \cup {[id |-> id, state |-> "SUCCEEDED", sub |-> nowT, query |-> q,
           completed |-> TRUE] : q \in {TraceQuery, DependenciesQuery}}

\* ids of the executions the reader started, newest first
StartedIds == [i \in 1..Len(engineStarted) |-> engineStarted[i].id]

\* the execution with this id among the started ones
StartedExecution(id) ==
    (CHOOSE i \in 1..Len(engineStarted) : engineStarted[i].id = id)

\* id of the execution of another client at place j of a listing page
OtherId(j) == 0 - j

\* the descriptions the engine can give of one id
DescriptionsOf(id) ==
    IF id > 0
    THEN {engineStarted[StartedExecution(id)]}
    ELSE OtherExecutions(id, ttlTime, now)

\* BatchGetQueryExecution: the descriptions of the ids, in the order asked
RECURSIVE BatchGetQueryExecution(_)
BatchGetQueryExecution(ids) ==
    IF ids = <<>>
    THEN {<<>>}
    ELSE {<<d>> \o rest : d \in DescriptionsOf(Head(ids)),
                          rest \in BatchGetQueryExecution(Tail(ids))}

\* the engine lists newest first: along the ids of the first page the
\* submission times do not increase, and an execution of another client that
\* is listed before one of the reader's is not older than it
NewestFirst(ids, b) ==
    /\ \A i \in 1..Len(b) : \A j \in (i + 1)..Len(b) : b[i].sub >= b[j].sub
    /\ \A i \in 1..Len(b) : \A k \in 1..Len(engineStarted) :
           (\A j \in 1..i : ids[j] # engineStarted[k].id)
               => b[i].sub >= engineStarted[k].sub

\* result.QueryExecutions for the ids of the first page
QueryExecutions(ids) == {b \in BatchGetQueryExecution(ids) : NewestFirst(ids, b)}


\* the pages ListQueryExecutions can return next: a few ids, the
\* reader's own executions not listed yet in their order among those of other
\* clients
ListQueryExecutions ==
    {[ids |-> [k \in 1..a |-> OtherId(k)]
                 \o SubSeq(StartedIds, startedListed + 1, startedListed + s)
                 \o [k \in 1..b |-> OtherId(a + s + k)],
      started |-> s, token |-> t] :
        a \in BatchLengths, b \in BatchLengths,
        s \in 0..(Len(engineStarted) - startedListed), t \in BOOLEAN}

\* only the last page can be empty, the listing has listingPages pages at
\* most, and its last page leaves no execution of the reader unlisted
PageAllowed(p) ==
    /\ Len(p.ids) \in BatchLengths
    /\ (Len(p.ids) = 0 => ~p.token)
    /\ (pagesListed + 1 >= listingPages => ~p.token)
    /\ (~p.token => startedListed + p.started = Len(engineStarted))

InitLookupVars ==
    /\ lookupPc = "idle"
    /\ lookupKey = <<>>
    /\ ttlTime = 0
    /\ firstPage = FALSE
    /\ nextToken = FALSE
    /\ pagesListed = 0
    /\ startedListed = 0
    /\ fetchPc = "idle"
    /\ output = <<>>
    /\ queryExecutionIdChunks = <<>>
    /\ chunksClosed = FALSE
    /\ fetchCancelled = FALSE
    /\ workerPc = "idle"
    /\ latestQueryExecution = NoExecution
    /\ examined = <<>>
    /\ unprocessed = FALSE
    /\ lookupErr = "none"
    /\ lookupResult = NoExecution

InitReaderVars ==
    /\ now = 0
    /\ engineStarted = <<>>
    /\ readerPc = "idle"
    /\ readerOp = "none"
    /\ startCalls = 0
    /\ queryExecution = NoExecution
    /\ engineOther = NoExecution
    /\ callStarted = 0
    /\ delivered = <<>>
    /\ readerErr = "none"
    /\ callLog = <<>>

\* max-span-age and max-trace-duration of the configuration
SpanAges == {2, 3}
TraceDurations == {0, 1, 2}

\* time.Time{}: the zero time, long before every time of the model
ZeroTime == 0 - 1000

\* spanstore.OperationQueryParameters / spanstore.TraceQueryParameters, with
\* the start times as the caller gave them
NoQuery == [ServiceName |-> "", SpanKind |-> "", StartTimeMin |-> ZeroTime,
            StartTimeMax |-> ZeroTime, GivenMin |-> ZeroTime, GivenMax |-> ZeroTime]

\* a nil result
NoResult == [nil |-> TRUE, list |-> <<>>, traces |-> {}]

InitOpVars ==
    /\ query = NoQuery
    /\ phase = 1
    /\ windows = <<>>
    /\ traceIDs = <<>>
    /\ enginePages = <<>>
    /\ opResult = NoResult

\* the configuration of the tests: max-span-age 336h, max-trace-duration
\* left at its default
InitOpIdle ==
    /\ InitOpVars
    /\ maxSpanAge = 2
    /\ maxTraceDuration = 1

\* no reader call is made
InitReaderIdle ==
    /\ InitLookupVars
    /\ InitReaderVars
    /\ InitOpIdle
    /\ servicesQueryTTL = 1
    /\ dependenciesQueryTTL = 1
    /\ listingPages = 1
    /\ callsLeft = 0

\* one reader call, against a work group whose listing has up to MaxPages pages
InitReader ==
    /\ InitLookupVars
    /\ InitReaderVars
    /\ InitOpIdle
    /\ servicesQueryTTL = 1
    /\ dependenciesQueryTTL = 1
    /\ listingPages = MaxPages
    /\ callsLeft = 1

\* one reader operation, against a work group whose listing has one page
InitQuery ==
    /\ InitLookupVars
    /\ InitReaderVars
    /\ InitOpVars
    /\ maxSpanAge \in SpanAges
    /\ maxTraceDuration \in TraceDurations
    /\ servicesQueryTTL = 1
    /\ dependenciesQueryTTL = 1
    /\ listingPages = 1
    /\ callsLeft = 1

\* two reader calls one after the other, against a work group whose listing
\* has up to two pages
InitReaderTwice ==
    /\ InitLookupVars
    /\ InitReaderVars
    /\ InitOpIdle
    /\ servicesQueryTTL = 1
    /\ dependenciesQueryTTL = 1
    /\ listingPages = 2
    /\ callsLeft = 2

\* time passes between two reader calls, until the first call is older than
\* the ttl
ClockAdvance ==
    /\ readerPc = "returned"
    /\ callsLeft > 0
    /\ now <= TtlOf(readerOp)
    /\ now' = now + 1
    /\ UNCHANGED <<servicesQueryTTL, dependenciesQueryTTL, listingPages, callsLeft,
                   engineStarted, engineOther, readerPc, readerOp, startCalls,
                   callStarted, queryExecution, delivered, readerErr, callLog>>
    /\ UNCHANGED lookupVars
    /\ UNCHANGED <<pwVars, ddVars, wsVars, pluginVars, stepVars>>
    /\ UNCHANGED opVars

\* a reader operation calls queryAthenaCached, which calls Lookup: ttlTime is
\* computed, the channel is made and both goroutines are started
LookupCall(op) ==
    /\ readerPc \in {"idle", "returned"}
    /\ callsLeft > 0
    /\ callsLeft' = callsLeft - 1
    /\ readerOp' = op
    /\ lookupKey' = LookupStringOf(op)
    /\ ttlTime' = now - TtlOf(op)
    /\ readerPc' = "lookup"
    /\ queryExecution' = NoExecution
    /\ engineOther' = NoExecution
    /\ callStarted' = 0
    /\ delivered' = <<>>
    /\ readerErr' = "none"
    /\ lookupPc' = "running"
    /\ firstPage' = TRUE
    /\ nextToken' = FALSE
    /\ pagesListed' = 0
    /\ startedListed' = 0
    /\ fetchPc' = "next"
    /\ output' = <<>>
    /\ queryExecutionIdChunks' = <<>>
    /\ chunksClosed' = FALSE
    /\ fetchCancelled' = FALSE
    /\ workerPc' = "select"
    /\ latestQueryExecution' = NoExecution
    /\ examined' = <<>>
    /\ unprocessed' = FALSE
    /\ lookupErr' = "none"
    /\ lookupResult' = NoExecution
    /\ UNCHANGED <<now, servicesQueryTTL, dependenciesQueryTTL, listingPages,
                   engineStarted, startCalls, callLog>>
    /\ UNCHANGED <<pwVars, ddVars, wsVars, pluginVars, stepVars>>

\* GetServices or GetDependencies (their datehour window is not recorded)
ReaderCall(op) == LookupCall(op) /\ UNCHANGED opVars

\* line 50: errors.Is(err, context.Canceled), for the error of a NextPage
\* whose context was done
IsCanceledNever(cancelled) == FALSE
IsCanceled(cancelled) == cancelled

\* page fetcher, loop head: HasMorePages, then NextPage(fetchCtx)
FetchNext ==
    /\ fetchPc = "next"
    /\ IF ~(firstPage \/ nextToken)
       THEN \* the loop ends; the deferred close runs
            /\ fetchPc' = "done"
            /\ chunksClosed' = TRUE
            /\ UNCHANGED <<firstPage, nextToken, pagesListed,
                           startedListed, output, fetchCancelled, lookupErr>>
       ELSE IF IsCanceled(fetchCancelled)
       THEN \* NextPage fails with context.Canceled: earlyExit
            /\ fetchPc' = "done"
            /\ chunksClosed' = TRUE
            /\ UNCHANGED <<firstPage, nextToken, pagesListed,
                           startedListed, output, fetchCancelled, lookupErr>>
       ELSE \/ \* NextPage fails: the goroutine returns the error, the
               \* errgroup cancels gCtx
               /\ fetchPc' = "failed"
               /\ chunksClosed' = TRUE
               /\ fetchCancelled' = TRUE
               /\ lookupErr' = IF lookupErr = "none" THEN "list" ELSE lookupErr
               /\ UNCHANGED <<firstPage, nextToken, pagesListed,
                              startedListed, output>>
            \/ \E p \in ListQueryExecutions :
               /\ PageAllowed(p)
               /\ fetchPc' = "send"
               /\ output' = p.ids
               /\ firstPage' = FALSE
               /\ nextToken' = p.token
               /\ pagesListed' = pagesListed + 1
               /\ startedListed' = startedListed + p.started
               /\ UNCHANGED <<chunksClosed, fetchCancelled, lookupErr>>
    /\ UNCHANGED <<lookupPc, lookupKey, ttlTime, queryExecutionIdChunks, workerPc,
                   latestQueryExecution, examined, unprocessed, lookupResult>>
    /\ UNCHANGED readerVars
    /\ UNCHANGED <<pwVars, ddVars, wsVars, pluginVars, stepVars>>
    /\ UNCHANGED opVars

\* page fetcher, the select: fetchCtx.Done() or the send on the channel
FetchSend ==
    /\ fetchPc = "send"
    /\ \/ /\ fetchCancelled
          /\ fetchPc' = "done"
          /\ chunksClosed' = TRUE
          /\ UNCHANGED queryExecutionIdChunks
       \/ /\ Len(queryExecutionIdChunks) < ChunkCapacity
          /\ queryExecutionIdChunks' = Append(queryExecutionIdChunks, output)
          /\ fetchPc' = "next"
          /\ UNCHANGED chunksClosed
    /\ output' = <<>>
    /\ UNCHANGED <<lookupPc, lookupKey, ttlTime, firstPage, nextToken, pagesListed,
                   startedListed, fetchCancelled, workerPc,
                   latestQueryExecution, examined, unprocessed, lookupErr,
                   lookupResult>>
    /\ UNCHANGED readerVars
    /\ UNCHANGED <<pwVars, ddVars, wsVars, pluginVars, stepVars>>
    /\ UNCHANGED opVars

\* the error g.Wait() returns is the first one a goroutine returned
FirstError(err) == IF lookupErr = "none" THEN err ELSE lookupErr

\* len(result.UnprocessedQueryExecutionIds) > 0
HasUnprocessedNever(n) == FALSE
HasUnprocessed(n) == n > 0

\* lookup worker: its single select, and the case body it runs
WorkerSelect ==
    /\ workerPc = "select"
    /\ \/ \* case <-fetchCtx.Done()
          /\ fetchCancelled
          /\ workerPc' = "done"
          /\ UNCHANGED <<queryExecutionIdChunks, fetchCancelled,
                         latestQueryExecution, examined, unprocessed, lookupErr>>
       \/ \* the channel is closed and drained: the receive yields nil
          /\ Len(queryExecutionIdChunks) = 0
          /\ chunksClosed
          /\ workerPc' = "done"
          /\ fetchCancelled' = TRUE
          /\ UNCHANGED <<queryExecutionIdChunks, latestQueryExecution, examined,
                         unprocessed, lookupErr>>
       \/ /\ Len(queryExecutionIdChunks) > 0
          /\ queryExecutionIdChunks' = Tail(queryExecutionIdChunks)
          /\ LET queryExecutionIds == Head(queryExecutionIdChunks)
             IN  IF Len(queryExecutionIds) = 0
                 THEN /\ workerPc' = "done"
                      /\ fetchCancelled' = TRUE
                      /\ UNCHANGED <<latestQueryExecution, examined, unprocessed,
                                     lookupErr>>
                 ELSE \/ \* BatchGetQueryExecution fails: the goroutine returns
                         \* the error, the errgroup cancels gCtx
                         /\ workerPc' = "failed"
                         /\ fetchCancelled' = TRUE
                         /\ lookupErr' = FirstError("batch")
                         /\ UNCHANGED <<latestQueryExecution, examined, unprocessed>>
                      \/ \* it leaves the first u ids unprocessed
                         \E u \in {0, 1} :
                         /\ unprocessed' = (u > 0)
                         /\ IF HasUnprocessed(u)
                            THEN /\ workerPc' = "failed"
                                 /\ fetchCancelled' = TRUE
                                 /\ lookupErr' = FirstError("unprocessed")
                                 /\ UNCHANGED <<latestQueryExecution, examined>>
                            ELSE \E b \in QueryExecutions(
                                          SubSeq(queryExecutionIds, u + 1,
                                                 Len(queryExecutionIds))) :
                                 LET r == ScanBatch(b, 1, lookupKey, ttlTime)
                                 IN  /\ workerPc' = "done"
                                     /\ latestQueryExecution' = r.latest
                                     /\ fetchCancelled' = (fetchCancelled \/ r.cancel)
                                     /\ examined' = b
                                     /\ UNCHANGED lookupErr
    /\ UNCHANGED <<lookupPc, lookupKey, ttlTime, firstPage, nextToken, pagesListed,
                   startedListed, fetchPc, output, chunksClosed, lookupResult>>
    /\ UNCHANGED readerVars
    /\ UNCHANGED <<pwVars, ddVars, wsVars, pluginVars, stepVars>>
    /\ UNCHANGED opVars

\* queryAthenaCached: queryExecution != nil
UseCachedNever(qe) == FALSE
UseCached(qe) == qe # NoExecution

\* what a reader call leaves in the call log when it returns
CallEntry(err, started) ==
    [op |-> readerOp, at |-> ttlTime + TtlOf(readerOp), started |-> started,
     found |-> lookupResult.id, err |-> err]

\* g.Wait() returns once both goroutines have; Lookup returns, and
\* queryAthenaCached takes its branch
LookupReturn ==
    /\ lookupPc = "running"
    /\ fetchPc \in {"done", "failed"}
    /\ workerPc \in {"done", "failed"}
    /\ lookupPc' = "returned"
    /\ lookupResult' = IF lookupErr # "none" THEN NoExecution ELSE latestQueryExecution
    /\ IF lookupErr # "none"
       THEN /\ readerPc' = "returned"
            /\ readerErr' = "lookup"
            /\ callLog' = Append(callLog, [CallEntry("lookup", 0) EXCEPT !.found = 0])
            /\ UNCHANGED <<queryExecution, engineOther>>
       ELSE IF UseCached(latestQueryExecution)
       THEN /\ readerPc' = "wait"
            /\ queryExecution' = latestQueryExecution
            /\ engineOther' = IF latestQueryExecution.id < 0
                              THEN latestQueryExecution ELSE NoExecution
            /\ UNCHANGED <<readerErr, callLog>>
       ELSE /\ readerPc' = "start"
            /\ UNCHANGED <<queryExecution, engineOther, readerErr, callLog>>
    /\ UNCHANGED <<now, servicesQueryTTL, dependenciesQueryTTL, listingPages, callsLeft, engineStarted,
                   readerOp, startCalls, callStarted, delivered>>
    /\ UNCHANGED <<lookupKey, ttlTime, firstPage, nextToken, pagesListed,
                   startedListed, fetchPc, output,
                   queryExecutionIdChunks, chunksClosed, fetchCancelled, workerPc,
                   latestQueryExecution, examined, unprocessed, lookupErr>>
    /\ UNCHANGED <<pwVars, ddVars, wsVars, pluginVars, stepVars>>
    /\ UNCHANGED opVars

\* the execution StartQueryExecution creates
NewExecution(queryString) ==
    [id |-> Len(engineStarted) + 1, state |-> "RUNNING", sub |-> now,
     query |-> queryString, completed |-> FALSE]

\* queryAthena: StartQueryExecution, then GetQueryExecution
StartQueryExecution ==
    /\ readerPc = "start"
    /\ \/ \* StartQueryExecution fails
          /\ readerPc' = "returned"
          /\ readerErr' = "start"
          /\ callLog' = Append(callLog, CallEntry("start", 0))
          /\ UNCHANGED <<engineStarted, startCalls, callStarted, queryExecution>>
       \/ LET e == NewExecution(QueryStringOf(readerOp))
          IN  /\ engineStarted' = <<e>> \o engineStarted
              /\ startCalls' = startCalls + 1
              /\ callStarted' = e.id
              /\ \/ \* GetQueryExecution fails
                    /\ readerPc' = "returned"
                    /\ readerErr' = "status"
                    /\ callLog' = Append(callLog, CallEntry("status", e.id))
                    /\ UNCHANGED queryExecution
                 \/ /\ readerPc' = "wait"
                    /\ queryExecution' = e
                    /\ UNCHANGED <<readerErr, callLog>>
    /\ UNCHANGED <<now, servicesQueryTTL, dependenciesQueryTTL, listingPages, callsLeft, readerOp,
                   delivered, engineOther>>
    /\ UNCHANGED lookupVars
    /\ UNCHANGED <<pwVars, ddVars, wsVars, pluginVars, stepVars>>
    /\ UNCHANGED opVars

\* the engine finishes a running execution
FinishedAs(e, state) == [e EXCEPT !.state = state, !.completed = TRUE]

EngineFinish ==
    /\ \E state \in {"SUCCEEDED", "FAILED"} :
        \/ /\ \E i \in 1..Len(engineStarted) :
                /\ engineStarted[i].state = "RUNNING"
                /\ engineStarted' =
                       [engineStarted EXCEPT ![i] = FinishedAs(engineStarted[i], state)]
           /\ UNCHANGED engineOther
        \/ /\ engineOther.state = "RUNNING"
           /\ engineOther' = FinishedAs(engineOther, state)
           /\ UNCHANGED engineStarted
    /\ UNCHANGED <<now, servicesQueryTTL, dependenciesQueryTTL, listingPages, callsLeft, readerPc, readerOp,
                   startCalls, callStarted, queryExecution, delivered, readerErr,
                   callLog>>
    /\ UNCHANGED lookupVars
    /\ UNCHANGED <<pwVars, ddVars, wsVars, pluginVars, stepVars>>
    /\ UNCHANGED opVars

\* GetQueryExecution: the engine's present description of an execution
GetQueryExecution(id) ==
    IF id > 0 THEN engineStarted[StartedExecution(id)] ELSE engineOther

\* waitAndFetchQueryResult line 444: Status.CompletionDateTime != nil
CompletedAlways(qe) == TRUE
Completed(qe) == qe.completed

\* waitAndFetchQueryResult: one turn of the polling loop
WaitPoll ==
    /\ readerPc = "wait"
    /\ IF Completed(queryExecution)
       THEN /\ readerPc' = "fetch"
            /\ UNCHANGED <<queryExecution, readerErr, callLog>>
       ELSE \/ \* GetQueryExecution fails
               /\ readerPc' = "returned"
               /\ readerErr' = "status"
               /\ callLog' = Append(callLog, CallEntry("status", callStarted))
               /\ UNCHANGED queryExecution
            \/ /\ queryExecution' = GetQueryExecution(queryExecution.id)
               /\ UNCHANGED <<readerPc, readerErr, callLog>>
    /\ UNCHANGED <<now, servicesQueryTTL, dependenciesQueryTTL, listingPages, callsLeft, engineStarted,
                   engineOther, readerOp, startCalls, callStarted, delivered>>
    /\ UNCHANGED lookupVars
    /\ UNCHANGED <<pwVars, ddVars, wsVars, pluginVars, stepVars>>
    /\ UNCHANGED opVars

\* the result pages the engine holds for an execution: a header row first
ResultPages(id) ==
    << <<[exec |-> id, row |-> 0], [exec |-> id, row |-> 1]>>,
       <<[exec |-> id, row |-> 2]>> >>

RECURSIVE AppendPages(_, _)
AppendPages(rows, pages) ==
    IF pages = <<>> THEN rows
    ELSE AppendPages(rows \o Head(pages), Tail(pages))

\* fetchQueryResult: rows = rows[1:] once every page is appended
WithoutHeaderKept(rows) == rows
WithoutHeader(rows) == IF Len(rows) >= 1 THEN Tail(rows) ELSE rows

\* ------------------------------------------------ reader operations

\* the values of the tables: services, span kinds, encoded span payloads (one
\* that does not decode) and trace ids
ServiceNames == {"svc1", "svc2"}
SpanKinds == {"client", "server"}
Payloads == {"enc1", "enc2", "corrupt"}
TraceIDStrings == {"t1", "t2"}
Times == 0..MaxTime

\* the rows of the operations table, in the order of ORDER BY 1, 2, 3
OperationRows ==
    << <<"svc1", "op1", "client">>, <<"svc1", "op1", "server">>,
       <<"svc1", "op2", "client">>, <<"svc1", "op2", "server">>,
       <<"svc2", "op1", "client">>, <<"svc2", "op1", "server">>,
       <<"svc2", "op2", "client">>, <<"svc2", "op2", "server">> >>

\* Reader.DefaultMaxTime, Reader.DefaultMinTime
DefaultMaxTime == now
DefaultMinTime == DefaultMaxTime - maxSpanAge

\* t.IsZero()
IsZero(t) == t = ZeroTime

\* t.Format(PARTION_FORMAT): the hour of t, two time units to the hour; the
\* hours are ordered as their texts are
FormatDatehour(t) == t \div 2

\* the bounds of a condition datehour BETWEEN '%s' AND '%s'
Window(min, max) == [lo |-> FormatDatehour(min), hi |-> FormatDatehour(max)]

\* findTraceIDs lines 306-312 (and FindTraces lines 215-221): a zero start
\* time is replaced in the caller's parameters
WithDefaults(q) ==
    [q EXCEPT !.StartTimeMin = IF IsZero(@) THEN DefaultMinTime ELSE @,
              !.StartTimeMax = IF IsZero(@) THEN DefaultMaxTime ELSE @]

\* FindTraces line 225: the window of the span query
SpanWindowSame(q) == Window(q.StartTimeMin, q.StartTimeMax)
SpanWindow(q) ==
    Window(q.StartTimeMin - maxTraceDuration, q.StartTimeMax + maxTraceDuration)

\* the sequences of at most two different elements of a set
DistinctSeqs(S) ==
    {<<>>} \cup {<<a>> : a \in S} \cup {p \in S \X S : p[1] # p[2]}

\* the data rows the engine can hold as the result of a query: grouped and
\* ordered operations, distinct payloads of a trace, distinct trace ids, and
\* distinct (trace id, payload) pairs of the trace ids asked for
DataOf(op, ph) ==
    IF op \in ServicesOps
    THEN {<<>>} \cup {<<OperationRows[i]>> : i \in 1..Len(OperationRows)}
         \cup {<<OperationRows[p[1]], OperationRows[p[2]]>> :
                 p \in {q \in (1..Len(OperationRows)) \X (1..Len(OperationRows)) :
                          q[1] < q[2]}}
    ELSE IF op = "GetTrace"
    THEN {[k \in 1..Len(d) |-> <<d[k]>>] : d \in DistinctSeqs(Payloads)}
    ELSE IF op = "FindTraces" /\ ph = 2
    THEN DistinctSeqs({<<traceIDs[k], v>> : k \in 1..Len(traceIDs), v \in Payloads})
    ELSE {[k \in 1..Len(d) |-> <<d[k]>>] : d \in DistinctSeqs(TraceIDStrings)}

\* the header row of a result: the names of its columns
HeaderRow(id) == [exec |-> id, row |-> 0, data |-> <<"column", "column", "column">>]

\* the rows of a result: the header row, then the data rows
EngineRows(id, data) ==
    <<HeaderRow(id)>>
    \o [k \in 1..Len(data) |-> [exec |-> id, row |-> k, data |-> data[k]]]

\* the rows on one page or cut into two pages
Paged(rows) ==
    {<<rows>>} \cup {<<SubSeq(rows, 1, k), SubSeq(rows, k + 1, Len(rows))>> :
                       k \in 1..(Len(rows) - 1)}

\* the pages GetQueryResults can return for an execution; for GetServices and
\* GetDependencies, whose rows are not looked into, the sample of ResultPages
ResultSets(op, ph, id) ==
    IF op \in ReaderOps
    THEN {ResultPages(id)}
    ELSE UNION {Paged(EngineRows(id, d)) : d \in DataOf(op, ph)}

\* GetOperations line 169 and line 173: the row is skipped
ServiceDiffersNever(q, v) == FALSE
ServiceDiffers(q, v) == q.ServiceName # v.data[1]
KindDiffers(q, v) == q.SpanKind # "" /\ q.SpanKind # v.data[3]

\* GetOperations lines 167-181: the loop over the rows
RECURSIVE Operations(_, _)
Operations(rows, q) ==
    IF rows = <<>>
    THEN <<>>
    ELSE LET v == Head(rows)
             rest == Operations(Tail(rows), q)
         IN  IF ServiceDiffers(q, v)
             THEN rest
             ELSE IF KindDiffers(q, v)
             THEN rest
             ELSE <<[Name |-> v.data[2], SpanKind |-> v.data[3]]>> \o rest

\* DecodeSpanPayload: the span of a payload, "error" when it does not decode
DecodeSpanPayload(v) ==
    IF v = "enc1" THEN "span1" ELSE IF v = "enc2" THEN "span2" ELSE "error"

\* the values of a column, row by row
Column(rows, c) == [k \in 1..Len(rows) |-> rows[k].data[c]]

\* the spans decoded from a column; whether one of them fails to decode
Spans(rows, c) == [k \in 1..Len(rows) |-> DecodeSpanPayload(rows[k].data[c])]
DecodeFails(rows, c) == \E k \in 1..Len(rows) : Spans(rows, c)[k] = "error"

\* FindTraces lines 235-250: traceIdSpans[traceId], in row order
RECURSIVE SpansOfTrace(_, _)
SpansOfTrace(rows, t) ==
    IF rows = <<>>
    THEN <<>>
    ELSE (IF Head(rows).data[1] = t
          THEN <<DecodeSpanPayload(Head(rows).data[2])>>
          ELSE <<>>) \o SpansOfTrace(Tail(rows), t)

\* FindTraces lines 252-257: one trace per trace id (the order of the traces
\* is that of a map iteration: none)
Traces(rows) ==
    {[traceID |-> t, Spans |-> SpansOfTrace(rows, t)] :
        t \in {rows[k].data[1] : k \in 1..Len(rows)}}

\* the operation returns to its caller
OpReturn(err, result) ==
    /\ readerPc' = "returned"
    /\ readerErr' = err
    /\ callLog' = Append(callLog, CallEntry(err, callStarted))
    /\ opResult' = result
    /\ UNCHANGED <<query, phase, windows, traceIDs>>

\* what the operation does with the rows of queryAthena / queryAthenaCached
OpTail(rows) ==
    IF readerOp \in ReaderOps
    THEN OpReturn("none", opResult)
    ELSE IF readerOp = "GetOperations"
    THEN OpReturn("none", [nil |-> FALSE, list |-> Operations(rows, query),
                           traces |-> {}])
    ELSE IF readerOp = "GetTrace"
    THEN IF Len(rows) = 0
         THEN OpReturn("ErrTraceNotFound", NoResult)
         ELSE IF DecodeFails(rows, 1)
         THEN OpReturn("decode", NoResult)
         ELSE OpReturn("none", [nil |-> FALSE, list |-> Spans(rows, 1),
                                traces |-> {}])
    ELSE IF readerOp = "FindTraceIDs"
    THEN \* findTraceIDs returns nil, nil for no rows
         IF Len(rows) = 0
         THEN OpReturn("none", NoResult)
         ELSE OpReturn("none", [nil |-> FALSE, list |-> Column(rows, 1),
                                traces |-> {}])
    ELSE IF phase = 1
    THEN \* FindTraces lines 210-230: the span query is built and run whatever
         \* the number of trace ids
         /\ traceIDs' = Column(rows, 1)
         /\ query' = WithDefaults(query)
         /\ windows' = Append(windows, SpanWindow(WithDefaults(query)))
         /\ phase' = 2
         /\ readerPc' = "start"
         /\ UNCHANGED <<readerErr, callLog, opResult>>
    ELSE IF DecodeFails(rows, 2)
    THEN OpReturn("decode", NoResult)
    ELSE OpReturn("none", [nil |-> FALSE, list |-> <<>>, traces |-> Traces(rows)])

\* fetchQueryResult, and the rest of the operation that called for the rows
FetchQueryResult ==
    /\ readerPc = "fetch"
    /\ \/ \* a page request fails; it always does for an execution that failed
          /\ OpReturn("results", NoResult)
          /\ UNCHANGED <<delivered, enginePages>>
       \/ /\ queryExecution.state = "SUCCEEDED"
          /\ \E pages \in ResultSets(readerOp, phase, queryExecution.id) :
               /\ enginePages' = pages
               /\ delivered' = WithoutHeader(AppendPages(<<>>, pages))
               /\ OpTail(WithoutHeader(AppendPages(<<>>, pages)))
    /\ UNCHANGED <<now, servicesQueryTTL, dependenciesQueryTTL, listingPages, callsLeft, engineStarted,
                   engineOther, readerOp, startCalls, callStarted, queryExecution>>
    /\ UNCHANGED <<maxSpanAge, maxTraceDuration>>
    /\ UNCHANGED lookupVars
    /\ UNCHANGED <<pwVars, ddVars, wsVars, pluginVars, stepVars>>

\* an operation that is not cached calls queryAthena
QueryCall(op) ==
    /\ readerPc = "idle"
    /\ callsLeft > 0
    /\ callsLeft' = callsLeft - 1
    /\ readerOp' = op
    /\ readerPc' = "start"
    /\ queryExecution' = NoExecution
    /\ engineOther' = NoExecution
    /\ callStarted' = 0
    /\ delivered' = <<>>
    /\ readerErr' = "none"
    /\ UNCHANGED <<now, servicesQueryTTL, dependenciesQueryTTL, listingPages,
                   engineStarted, startCalls, callLog>>
    /\ UNCHANGED lookupVars
    /\ UNCHANGED <<pwVars, ddVars, wsVars, pluginVars, stepVars>>

\* what every operation starts with
OpBegin(q, window) ==
    /\ query' = q
    /\ windows' = <<window>>
    /\ phase' = 1
    /\ traceIDs' = <<>>
    /\ enginePages' = <<>>
    /\ opResult' = NoResult
    /\ UNCHANGED <<maxSpanAge, maxTraceDuration>>

\* GetOperations(query) up to the Lookup of getServicesAndOperations
GetOperations ==
    \E service \in ServiceNames, kind \in {""} \cup SpanKinds :
        /\ LookupCall("GetOperations")
        /\ OpBegin([NoQuery EXCEPT !.ServiceName = service, !.SpanKind = kind],
                   Window(DefaultMinTime, DefaultMaxTime))

\* GetTrace(traceID) up to its queryAthena
GetTrace ==
    /\ QueryCall("GetTrace")
    /\ OpBegin(NoQuery, Window(DefaultMinTime, DefaultMaxTime))

\* the parameters of a FindTraces or FindTraceIDs call
TraceQueries ==
    {[NoQuery EXCEPT !.ServiceName = "svc1", !.StartTimeMin = min,
                     !.StartTimeMax = max, !.GivenMin = min, !.GivenMax = max] :
        min \in Times \cup {ZeroTime}, max \in Times \cup {ZeroTime}}

\* findTraceIDs lines 293-326, up to its queryAthena
FindTraceIDsCall(op) ==
    \E q \in TraceQueries :
        /\ QueryCall(op)
        /\ OpBegin(WithDefaults(q),
                   Window(WithDefaults(q).StartTimeMin, WithDefaults(q).StartTimeMax))

FindTraceIDs == FindTraceIDsCall("FindTraceIDs")

FindTraces == FindTraceIDsCall("FindTraces")

\* GetServices, GetOperations (both getServicesAndOperations) or GetDependencies
CallAny == \E op \in ReaderOps : ReaderCall(op)

GetServices == ReaderCall("GetServices")

LookupSteps ==
    \/ FetchNext
    \/ FetchSend
    \/ WorkerSelect
    \/ LookupReturn
    \/ StartQueryExecution
    \/ EngineFinish
    \/ WaitPoll
    \/ FetchQueryResult

NextR ==
    \/ CallAny
    \/ LookupSteps

NextR2 ==
    \/ GetServices
    \/ ClockAdvance
    \/ LookupSteps

\* one reader operation whose rows are looked into
NextQ ==
    \/ GetOperations
    \/ GetTrace
    \/ FindTraceIDs
    \/ FindTraces
    \/ LookupSteps

\* ============================================================== Writer

\* S3PartitionKey: the hour of a start time, two time units to the hour
S3PartitionKey(t) == IF t < 2 THEN "2017/01/26/16" ELSE "2017/01/26/17"

\* start times of the spans written: two in the first hour, one in the second
StartTimes == {0, 1, 2}

NoSpan == [key |-> "", startTime |-> 0]

\* older DedupeParquetWriter.Write: !ok || rowTime.After(nextWriteTime)
DelegatedAlways(found, rowTime, next) == TRUE
Delegated(found, rowTime, next) == ~found \/ rowTime > next

\* ParquetWriter.Write without rotation: the row goes to the writer of its hour
AppendRow(open, t, row) == [open EXCEPT ![S3PartitionKey(t)] = Append(@, row)]

\* the open writers of a ParquetWriter, as the objects their close uploads
ObjectsOf(dataset, open) ==
    {[dataset |-> dataset, datehour |-> d, rows |-> open[d]] :
        d \in {h \in Datehours : open[h] # <<>>}}

\* NewWriter: two ParquetWriters without open writers, the operations one
\* behind a DedupeParquetWriter
InitWriterVars ==
    /\ wsPc = "idle"
    /\ wsSpan = NoSpan
    /\ operationsPc = "idle"
    /\ spansPc = "idle"
    /\ spansOpen = [d \in Datehours |-> <<>>]
    /\ operationsOpen = [d \in Datehours |-> <<>>]
    /\ wsObjects = {}
    /\ wsCalls = 0
    /\ wsFirst = NoSpan
    /\ wsAllSame = TRUE
    /\ wsAllOk = TRUE
    /\ wsCloseOk = FALSE

\* no WriteSpan call is made
InitWriterIdle == InitWriterVars /\ wsLeft = 0

InitWriter == InitWriterVars /\ wsLeft = MaxSpans

ddGhosts == <<dedupeDuration, dedupeCacheSize, nCalls, lastCall, prevCall,
              delegatedTimes, delegatedTwice, lastAccepted, evictedKeys>>

\* WriteSpan: both goroutines are started
WriteSpan ==
    /\ wsPc = "idle"
    /\ wsLeft > 0
    /\ wsLeft' = wsLeft - 1
    /\ \E key \in DedupeKeys, t \in StartTimes :
        LET span == [key |-> key, startTime |-> t]
        IN  /\ wsSpan' = span
            /\ wsFirst' = IF wsCalls = 0 THEN span ELSE wsFirst
            /\ wsAllSame' = (wsAllSame /\ (wsCalls = 0 \/ span = wsFirst))
    /\ wsPc' = "running"
    /\ operationsPc' = "run"
    /\ spansPc' = "run"
    /\ UNCHANGED <<spansOpen, operationsOpen, wsObjects, wsCalls, wsAllOk,
                   wsCloseOk>>
    /\ UNCHANGED <<pwVars, ddVars, qcVars, pluginVars, stepVars>>

\* first goroutine: the operation record goes through the dedupe wrapper
OperationsWrite ==
    /\ operationsPc = "run"
    /\ LET key == wsSpan.key
           rowTime == wsSpan.startTime
           found == CacheHas(dedupeCache, key)
           next == IF found THEN CacheValue(dedupeCache, key) ELSE 0
           got == CacheGet(dedupeCache, key)
       IN  IF Delegated(found, rowTime, next)
           THEN \/ \* the wrapped Write fails
                   /\ operationsPc' = "err"
                   /\ dedupeCache' = got
                   /\ UNCHANGED operationsOpen
                \/ /\ operationsPc' = "ok"
                   /\ operationsOpen' = AppendRow(operationsOpen, rowTime, wsSpan)
                   /\ dedupeCache' = CacheAdd(got, key, rowTime + dedupeDuration,
                                              dedupeCacheSize)
           ELSE /\ operationsPc' = "ok"
                /\ dedupeCache' = got
                /\ UNCHANGED operationsOpen
    /\ UNCHANGED <<wsPc, wsSpan, spansPc, spansOpen, wsObjects, wsCalls, wsLeft,
                   wsFirst, wsAllSame, wsAllOk, wsCloseOk>>
    /\ UNCHANGED <<pwVars, ddGhosts, qcVars, pluginVars, stepVars>>

\* second goroutine: the span record goes to the spans writer
SpansWrite ==
    /\ spansPc = "run"
    /\ \/ /\ spansPc' = "err"
          /\ UNCHANGED spansOpen
       \/ /\ spansPc' = "ok"
          /\ spansOpen' = AppendRow(spansOpen, wsSpan.startTime, wsSpan)
    /\ UNCHANGED <<wsPc, wsSpan, operationsPc, operationsOpen, wsObjects, wsCalls,
                   wsLeft, wsFirst, wsAllSame, wsAllOk, wsCloseOk>>
    /\ UNCHANGED <<pwVars, ddVars, qcVars, pluginVars, stepVars>>

\* g.Wait(): WriteSpan returns once both goroutines have
WriteSpanReturn ==
    /\ wsPc = "running"
    /\ operationsPc \in {"ok", "err"}
    /\ spansPc \in {"ok", "err"}
    /\ wsPc' = "idle"
    /\ wsCalls' = wsCalls + 1
    /\ wsAllOk' = (wsAllOk /\ operationsPc = "ok" /\ spansPc = "ok")
    /\ operationsPc' = "idle"
    /\ spansPc' = "idle"
    /\ UNCHANGED <<wsSpan, spansOpen, operationsOpen, wsObjects, wsLeft, wsFirst,
                   wsAllSame, wsCloseOk>>
    /\ UNCHANGED <<pwVars, ddVars, qcVars, pluginVars, stepVars>>

\* Writer.Close: both ParquetWriters close their open writers; an upload can fail
WriterClose ==
    /\ wsPc = "idle"
    /\ wsPc' = "closed"
    /\ LET all == ObjectsOf("spans", spansOpen)
                  \cup ObjectsOf("operations", operationsOpen)
       IN  \E uploaded \in SUBSET all :
            /\ wsObjects' = uploaded
            /\ wsCloseOk' = (uploaded = all)
    /\ spansOpen' = [d \in Datehours |-> <<>>]
    /\ operationsOpen' = [d \in Datehours |-> <<>>]
    /\ UNCHANGED <<wsSpan, operationsPc, spansPc, wsCalls, wsLeft, wsFirst,
                   wsAllSame, wsAllOk>>
    /\ UNCHANGED <<pwVars, ddVars, qcVars, pluginVars, stepVars>>

NextW ==
    \/ WriteSpan
    \/ OperationsWrite
    \/ SpansWrite
    \/ WriteSpanReturn
    \/ WriterClose

\* ================================================ DependenciesPrefetch

\* NewDependenciesPrefetch: the ticker runs from here on; Start is yet to be called
InitPrefetchVars ==
    /\ prefetchStarted = FALSE
    /\ prefetchPc = "none"
    /\ prefetchTickPending = FALSE
    /\ prefetchTickerStopped = FALSE
    /\ intervals = 0
    /\ called = 0
    /\ calledReturned = 0
    /\ stopPc = "idle"
    /\ calledAtStop = 0
    /\ overrun = FALSE

\* a prefetcher nobody calls
InitPrefetchIdle == InitPrefetchVars /\ enabled = FALSE

InitPrefetch == InitPrefetchVars /\ enabled \in BOOLEAN

\* d.enabled, as Start and Stop test it
EnabledAlways(d) == TRUE
Enabled(d) == d

\* Start line 48: the goroutine begins with prefetchDependencies
AfterStartSelect == "select"
AfterStart == "sleep"

\* Start
PrefetchStart ==
    /\ ~prefetchStarted
    /\ prefetchStarted' = TRUE
    /\ prefetchPc' = IF ~Enabled(enabled) THEN prefetchPc ELSE AfterStart
    /\ UNCHANGED <<enabled, prefetchTickPending, prefetchTickerStopped, intervals,
                   called, calledReturned, stopPc, calledAtStop, overrun>>
    /\ UNCHANGED <<pwVars, ddVars, qcVars, wsVars, plVars, stepVars>>

\* the ticker: an interval has elapsed; the tick is dropped when one is pending
PrefetchTick ==
    /\ ~prefetchTickerStopped
    /\ intervals < MaxIntervals
    /\ intervals' = intervals + 1
    /\ prefetchTickPending' = TRUE
    /\ overrun' = (overrun \/ prefetchTickPending \/ prefetchPc # "select")
    /\ UNCHANGED <<enabled, prefetchStarted, prefetchPc, prefetchTickerStopped,
                   called, calledReturned, stopPc, calledAtStop>>
    /\ UNCHANGED <<pwVars, ddVars, qcVars, wsVars, plVars, stepVars>>

\* prefetchDependencies line 64-67: the sleep is over, GetDependencies is called
PrefetchGetDependencies ==
    /\ prefetchPc = "sleep"
    /\ prefetchPc' = "query"
    /\ called' = called + 1
    /\ UNCHANGED <<enabled, prefetchStarted, prefetchTickPending,
                   prefetchTickerStopped, intervals, calledReturned, stopPc,
                   calledAtStop, overrun>>
    /\ UNCHANGED <<pwVars, ddVars, qcVars, wsVars, plVars, stepVars>>

\* GetDependencies returns, with an error (logged) or without; the goroutine
\* comes to its select
PrefetchReturn ==
    /\ prefetchPc = "query"
    /\ prefetchPc' = "select"
    /\ calledReturned' = calledReturned + 1
    /\ UNCHANGED <<enabled, prefetchStarted, prefetchTickPending,
                   prefetchTickerStopped, intervals, called, stopPc,
                   calledAtStop, overrun>>
    /\ UNCHANGED <<pwVars, ddVars, qcVars, wsVars, plVars, stepVars>>

\* goroutine, case <-d.ticker.C
PrefetchSelectTick ==
    /\ prefetchPc = "select"
    /\ prefetchTickPending
    /\ prefetchTickPending' = FALSE
    /\ prefetchPc' = "sleep"
    /\ UNCHANGED <<enabled, prefetchStarted, prefetchTickerStopped, intervals,
                   called, calledReturned, stopPc, calledAtStop, overrun>>
    /\ UNCHANGED <<pwVars, ddVars, qcVars, wsVars, plVars, stepVars>>

\* goroutine, case <-d.done: the rendezvous with Stop's d.done <- true
PrefetchSelectDone ==
    /\ prefetchPc = "select"
    /\ stopPc = "send"
    /\ prefetchPc' = "exited"
    /\ stopPc' = "returned"
    /\ UNCHANGED <<enabled, prefetchStarted, prefetchTickPending,
                   prefetchTickerStopped, intervals, called, calledReturned,
                   calledAtStop, overrun>>
    /\ UNCHANGED <<pwVars, ddVars, qcVars, wsVars, plVars, stepVars>>

\* Stop: returns at once when disabled, else stops the ticker and blocks in
\* d.done <- true
PrefetchStop ==
    /\ stopPc = "idle"
    /\ calledAtStop' = called
    /\ IF ~Enabled(enabled)
       THEN /\ stopPc' = "returned"
            /\ UNCHANGED prefetchTickerStopped
       ELSE /\ stopPc' = "send"
            /\ prefetchTickerStopped' = TRUE
    /\ UNCHANGED <<enabled, prefetchStarted, prefetchPc, prefetchTickPending,
                   intervals, called, calledReturned, overrun>>
    /\ UNCHANGED <<pwVars, ddVars, qcVars, wsVars, plVars, stepVars>>

NextP ==
    \/ PrefetchStart
    \/ PrefetchTick
    \/ PrefetchGetDependencies
    \/ PrefetchReturn
    \/ PrefetchSelectTick
    \/ PrefetchSelectDone
    \/ PrefetchStop

\* ======================================================= S3Plugin.Close

InitPluginVars ==
    /\ pluginPc = "idle"
    /\ pluginErr = FALSE
    /\ closeFound = [rotation |-> FALSE, operations |-> FALSE, prefetch |-> FALSE]
    /\ operationsRotPc = "select"
    /\ operationsClosePc = "idle"

\* NewS3Plugin: NewWriter has made both parquet writers, NewReader has made
\* the prefetcher and called its Start
InitPlugin ==
    /\ InitPluginVars
    /\ enabled \in BOOLEAN
    /\ prefetchStarted = TRUE
    /\ prefetchPc = IF Enabled(enabled) THEN AfterStart ELSE "none"
    /\ prefetchTickPending = FALSE
    /\ prefetchTickerStopped = FALSE
    /\ intervals = 0
    /\ called = 0
    /\ calledReturned = 0
    /\ stopPc = "idle"
    /\ calledAtStop = 0
    /\ overrun = FALSE

\* the rotation goroutine of the operations writer takes a tick and rotates
OperationsRotate ==
    /\ operationsRotPc = "select"
    /\ operationsClosePc \in {"idle", "send"}
    /\ operationsRotPc' = "rotating"
    /\ UNCHANGED <<pluginPc, pluginErr, closeFound, operationsClosePc>>
    /\ UNCHANGED <<pwVars, ddVars, qcVars, wsVars, pfVars, stepVars>>

\* its rotateParquetWriters returns (an error is logged)
OperationsRotateEnd ==
    /\ operationsRotPc = "rotating"
    /\ operationsRotPc' = "select"
    /\ UNCHANGED <<pluginPc, pluginErr, closeFound, operationsClosePc>>
    /\ UNCHANGED <<pwVars, ddVars, qcVars, wsVars, pfVars, stepVars>>

\* S3Plugin.Close lines 67-70: both goroutines of the errgroup are started;
\* the caller goes on to g.Wait()
PluginClose ==
    /\ pluginPc = "idle"
    /\ pluginPc' = "waiting"
    /\ closeFound' = [rotation |-> rotPc \in {"rotate", "closing"},
                      operations |-> operationsRotPc = "rotating",
                      prefetch |-> prefetchPc = "query"]
    /\ UNCHANGED <<pluginErr, operationsRotPc, operationsClosePc>>
    /\ UNCHANGED <<pwVars, ddVars, qcVars, wsVars, pfVars, stepVars>>

\* Writer.Close, first goroutine: spanParquetWriter.Close() is called
SpanWriterClose == pluginPc = "waiting" /\ CloseStart

\* Writer.Close, second goroutine: operationsParquetWriter.Close() is called
\* (DedupeParquetWriter.Close, ParquetWriter.Close line 168-169)
OperationsWriterClose ==
    /\ pluginPc = "waiting"
    /\ operationsClosePc = "idle"
    /\ operationsClosePc' = "send"
    /\ UNCHANGED <<pluginPc, pluginErr, closeFound, operationsRotPc>>
    /\ UNCHANGED <<pwVars, ddVars, qcVars, wsVars, pfVars, stepVars>>

\* the rotation goroutine of the operations writer receives from done; Close
\* then closes the open writers and returns the outcome
OperationsWriterClosed ==
    /\ operationsClosePc = "send"
    /\ operationsRotPc = "select"
    /\ operationsRotPc' = "exited"
    /\ operationsClosePc' \in {"ok", "err"}
    /\ UNCHANGED <<pluginPc, pluginErr, closeFound>>
    /\ UNCHANGED <<pwVars, ddVars, qcVars, wsVars, pfVars, stepVars>>

\* Reader.Close: r.dependenciesPrefetch.Stop()
ReaderClose == pluginPc = "waiting" /\ PrefetchStop

\* every goroutine of both errgroups has returned
AllReturnedButReader ==
    /\ closePc = "returned"
    /\ operationsClosePc \in {"ok", "err"}
AllReturned ==
    /\ closePc = "returned"
    /\ operationsClosePc \in {"ok", "err"}
    /\ stopPc = "returned"

\* S3Plugin.Close line 72: g.Wait() returns the first error there is;
\* Reader.Close returns none
PluginWait ==
    /\ pluginPc = "waiting"
    /\ AllReturned
    /\ pluginPc' = "returned"
    /\ pluginErr' = (closeResult = "err" \/ operationsClosePc = "err")
    /\ UNCHANGED <<closeFound, operationsRotPc, operationsClosePc>>
    /\ UNCHANGED <<pwVars, ddVars, qcVars, wsVars, pfVars, stepVars>>

\* one plugin: a span written at most, a tick of each ticker at most, the
\* prefetcher, and Close
NextPl ==
    \/ (nWrites < 1 /\ Write)
    \/ (ticks < 1 /\ Tick)
    \/ RotTick
    \/ RotDone
    \/ RotSwap
    \/ RotCloseOne
    \/ RotCloseEnd
    \/ CloseLock
    \/ CloseOne
    \/ CloseEnd
    \/ OperationsRotate
    \/ OperationsRotateEnd
    \/ (intervals < 1 /\ PrefetchTick)
    \/ PrefetchGetDependencies
    \/ PrefetchReturn
    \/ PrefetchSelectTick
    \/ PrefetchSelectDone
    \/ PluginClose
    \/ SpanWriterClose
    \/ OperationsWriterClose
    \/ OperationsWriterClosed
    \/ ReaderClose
    \/ PluginWait

\* ============================== DedupeParquetWriter, concurrent callers

\* goroutines calling Write at the same time (WriteSpan runs on the goroutines
\* of the gRPC server)
Callers == {1, 2}

NoCaller == [pc |-> "idle", key |-> "", rowTime |-> 0, found |-> FALSE, next |-> 0,
             delegated |-> FALSE, err |-> FALSE]

InitDedupeCallers == dedupeCallers = [c \in Callers |-> NoCaller]

\* Write is entered with a row
ConcurrentCall(c) ==
    /\ dedupeCallers[c].pc = "idle"
    /\ \E key \in DedupeKeys, rowTime \in RowTimes :
         dedupeCallers' = [dedupeCallers EXCEPT
                             ![c] = [NoCaller EXCEPT !.pc = "get", !.key = key,
                                                     !.rowTime = rowTime]]
    /\ UNCHANGED <<writeCall, lastWrite>>
    /\ UNCHANGED <<pwVars, ddVars, qcVars, wsVars, pluginVars>>

\* lines 42-45: dedupeCache.Get under the lock of the cache, then the test
ConcurrentGet(c) ==
    /\ dedupeCallers[c].pc = "get"
    /\ LET key   == dedupeCallers[c].key
           found == CacheHas(dedupeCache, key)
           next  == IF found THEN CacheValue(dedupeCache, key) ELSE 0
       IN /\ dedupeCache' = CacheGet(dedupeCache, key)
          /\ dedupeCallers' = [dedupeCallers EXCEPT
                ![c].found = found,
                ![c].next = next,
                ![c].pc = IF Suppressed(found, dedupeCallers[c].rowTime, next)
                          THEN "returned" ELSE "write"]
    /\ UNCHANGED <<writeCall, lastWrite>>
    /\ UNCHANGED <<dedupeDuration, dedupeCacheSize, nCalls, lastCall, prevCall,
                   delegatedTimes, delegatedTwice, lastAccepted, evictedKeys>>
    /\ UNCHANGED <<pwVars, qcVars, wsVars, pluginVars>>

\* lines 54-56: the wrapped Write returns, nil or an error
ConcurrentWrite(c) ==
    /\ dedupeCallers[c].pc = "write"
    /\ \/ dedupeCallers' = [dedupeCallers EXCEPT ![c].delegated = TRUE, ![c].pc = "add"]
       \/ dedupeCallers' = [dedupeCallers EXCEPT ![c].err = TRUE, ![c].pc = "returned"]
    /\ UNCHANGED <<writeCall, lastWrite>>
    /\ UNCHANGED <<pwVars, ddVars, qcVars, wsVars, pluginVars>>

\* lines 57-59: dedupeCache.Add under the lock of the cache, return nil
ConcurrentAdd(c) ==
    /\ dedupeCallers[c].pc = "add"
    /\ dedupeCache' = CacheAdd(dedupeCache, dedupeCallers[c].key,
                               NextWriteTime(dedupeCallers[c].rowTime), dedupeCacheSize)
    /\ dedupeCallers' = [dedupeCallers EXCEPT ![c].pc = "returned"]
    /\ UNCHANGED <<writeCall, lastWrite>>
    /\ UNCHANGED <<dedupeDuration, dedupeCacheSize, nCalls, lastCall, prevCall,
                   delegatedTimes, delegatedTwice, lastAccepted, evictedKeys>>
    /\ UNCHANGED <<pwVars, qcVars, wsVars, pluginVars>>

NextDC ==
    \E c \in Callers :
        \/ ConcurrentCall(c)
        \/ ConcurrentGet(c)
        \/ ConcurrentWrite(c)
        \/ ConcurrentAdd(c)

\* ============================== ParquetWriter, Write statement by statement

\* no Write call is between its Lock and its Unlock
NoWriteCall == [pc |-> "idle", time |-> 0, datehour |-> "", before |-> <<>>,
                ref |-> NoWriter, file |-> "none", hit |-> FALSE]

\* no Write call has returned yet
NoWrite == [time |-> 0, datehour |-> "", err |-> "", file |-> "none", hit |-> FALSE]

InitWriteCall ==
    /\ writeCall = NoWriteCall
    /\ lastWrite = NoWrite

InitStepVars == InitDedupeCallers /\ InitWriteCall

\* bufferMutex.Lock() returns only when nobody holds the mutex
MutexFreeAlways(mutex) == TRUE
MutexFree(mutex) == mutex = "free"

\* getParquetWriter lines 101-104: the map with the entry of the partition set
StoredRefsAlone(refs, datehour, id) ==
    [d \in Datehours |-> IF d = datehour THEN id ELSE NoWriter]
StoredRefs(refs, datehour, id) == [refs EXCEPT ![datehour] = id]

\* getParquetWriter lines 90-99: what a failed open leaves of the file
FailedOpenFileLeftOpen(file) == file
FailedOpenFile(file) == IF file = "open" THEN "closed" ELSE file

\* the row a Write call appends at line 161
StepRow == [id |-> nWrites, epoch |-> swaps, phase |-> closePc]

\* Write returns: the deferred Unlock of line 152 runs
WriteReturn(err) ==
    /\ bufferMutex' = "free"
    /\ writeCall' = NoWriteCall
    /\ lastWrite' = [time |-> writeCall.time, datehour |-> writeCall.datehour,
                     err |-> err,
                     file |-> IF err = "get" THEN FailedOpenFile(writeCall.file)
                              ELSE writeCall.file,
                     hit |-> writeCall.hit]

\* Write lines 151-154: Lock, then the partition key of the row-time
WriteLock ==
    /\ writeCall.pc = "idle"
    /\ MutexFree(bufferMutex)
    /\ nWrites < MaxWrites
    /\ nWrites' = nWrites + 1
    /\ bufferMutex' = "write"
    /\ \E time \in StartTimes :
         writeCall' = [pc |-> "get", time |-> time, datehour |-> S3PartitionKey(time),
                       before |-> parquetWriterRefs, ref |-> NoWriter,
                       file |-> "none", hit |-> FALSE]
    /\ UNCHANGED lastWrite
    /\ UNCHANGED <<parquetWriterRefs, writers, tickerStopped, tickPending, ticks, rotPc,
                   rotBatch, closePc, closeBatch, closeResult, accepted, swaps>>
    /\ UNCHANGED dedupeCallers
    /\ UNCHANGED <<ddVars, qcVars, wsVars, pluginVars>>

\* getParquetWriter lines 86-93: the entry of the partition is returned, or
\* NewS3FileWriterWithClient is called and succeeds or fails
WriteGetParquetWriter ==
    /\ writeCall.pc = "get"
    /\ IF HasParquetWriter(parquetWriterRefs, writeCall.datehour)
       THEN /\ writeCall' = [writeCall EXCEPT !.pc = "append", !.hit = TRUE,
                                !.ref = parquetWriterRefs[writeCall.datehour]]
            /\ UNCHANGED <<bufferMutex, lastWrite>>
       ELSE \/ /\ writeCall' = [writeCall EXCEPT !.pc = "file", !.file = "open"]
               /\ UNCHANGED <<bufferMutex, lastWrite>>
            \/ WriteReturn("get")
    /\ UNCHANGED <<parquetWriterRefs, writers, tickerStopped, tickPending, ticks, rotPc,
                   rotBatch, closePc, closeBatch, closeResult, nWrites, accepted, swaps>>
    /\ UNCHANGED dedupeCallers
    /\ UNCHANGED <<ddVars, qcVars, wsVars, pluginVars>>

\* getParquetWriter lines 95-106: NewParquetWriter fails and the file is
\* closed, or it succeeds and the ParquetRef is stored
WriteNewParquetWriter ==
    /\ writeCall.pc = "file"
    /\ \/ /\ WriteReturn("get")
          /\ UNCHANGED <<parquetWriterRefs, writers>>
       \/ /\ writers' = Append(writers, NewParquetRef(writeCall.datehour))
          /\ parquetWriterRefs' = StoredRefs(parquetWriterRefs, writeCall.datehour,
                                             Len(writers) + 1)
          /\ writeCall' = [writeCall EXCEPT !.pc = "append", !.file = "stored",
                                            !.ref = Len(writers) + 1]
          /\ UNCHANGED <<bufferMutex, lastWrite>>
    /\ UNCHANGED <<tickerStopped, tickPending, ticks, rotPc, rotBatch, closePc,
                   closeBatch, closeResult, nWrites, accepted, swaps>>
    /\ UNCHANGED dedupeCallers
    /\ UNCHANGED <<ddVars, qcVars, wsVars, pluginVars>>

\* Write lines 161-164: parquetWriter.Write(row) succeeds or fails
WriteRow ==
    /\ writeCall.pc = "append"
    /\ \/ /\ writers' = [writers EXCEPT ![writeCall.ref].rows = Append(@, StepRow)]
          /\ accepted' = IF closePc = "idle" THEN accepted \cup {nWrites} ELSE accepted
          /\ WriteReturn("none")
       \/ /\ UNCHANGED <<writers, accepted>>
          /\ WriteReturn("write")
    /\ UNCHANGED <<parquetWriterRefs, tickerStopped, tickPending, ticks, rotPc, rotBatch,
                   closePc, closeBatch, closeResult, nWrites, swaps>>
    /\ UNCHANGED dedupeCallers
    /\ UNCHANGED <<ddVars, qcVars, wsVars, pluginVars>>

\* rotateParquetWriters line 130: w.bufferMutex.Lock()
RotLock ==
    /\ rotPc = "rotate"
    /\ MutexFree(bufferMutex)
    /\ bufferMutex' = "rotate"
    /\ rotPc' = "locked"
    /\ UNCHANGED <<parquetWriterRefs, writers, tickerStopped, tickPending, ticks,
                   rotBatch, closePc, closeBatch, closeResult, nWrites, accepted, swaps>>
    /\ UNCHANGED <<ddVars, qcVars, wsVars, pluginVars, stepVars>>

\* rotateParquetWriters lines 132-135: swap the map, Unlock
RotSwapUnlock ==
    /\ rotPc = "locked"
    /\ rotBatch' = RefsOf(parquetWriterRefs)
    /\ writers' = [i \in 1..Len(writers) |->
                     IF i \in RefsOf(parquetWriterRefs)
                     THEN [writers[i] EXCEPT !.swapEpoch = swaps + 1]
                     ELSE writers[i]]
    /\ parquetWriterRefs' = SwappedInRefs
    /\ swaps' = swaps + 1
    /\ bufferMutex' = "free"
    /\ rotPc' = "closing"
    /\ UNCHANGED <<tickerStopped, tickPending, ticks, closePc, closeBatch,
                   closeResult, nWrites, accepted>>
    /\ UNCHANGED <<ddVars, qcVars, wsVars, pluginVars, stepVars>>

\* one ParquetWriter with every Write and one rotation followed step by step
NextWS ==
    \/ WriteLock
    \/ WriteGetParquetWriter
    \/ WriteNewParquetWriter
    \/ WriteRow
    \/ (ticks < 1 /\ Tick)
    \/ RotTick
    \/ RotDone
    \/ RotLock
    \/ RotSwapUnlock
    \/ RotCloseOne
    \/ RotCloseEnd
    \/ CloseStart
    \/ CloseLock
    \/ CloseOne
    \/ CloseEnd

\* ====================================================== specifications

Init == InitParquetWriter /\ InitDedupeIdle /\ InitReaderIdle /\ InitWriterIdle /\ InitPrefetchIdle /\ InitPluginVars /\ InitStepVars

Next ==
    \/ Tick
    \/ RotTick
    \/ RotDone
    \/ RotSwap
    \/ RotCloseOne
    \/ RotCloseEnd
    \/ Write
    \/ CloseStart
    \/ CloseLock
    \/ CloseOne
    \/ CloseEnd

Spec == Init /\ [][Next]_vars

InitD == InitParquetWriter /\ InitDedupe /\ InitReaderIdle /\ InitWriterIdle /\ InitPrefetchIdle /\ InitPluginVars /\ InitStepVars

NextD == DedupeWrite

SpecDedupe == InitD /\ [][NextD]_vars

InitR == InitParquetWriter /\ InitDedupeIdle /\ InitReader /\ InitWriterIdle /\ InitPrefetchIdle /\ InitPluginVars /\ InitStepVars

SpecReader == InitR /\ [][NextR]_vars

\* the polling loop of waitAndFetchQueryResult keeps running: it sleeps 100 ms
\* and polls again
SpecReaderFair == InitR /\ [][NextR]_vars /\ WF_vars(WaitPoll)

InitQ == InitParquetWriter /\ InitDedupeIdle /\ InitQuery /\ InitWriterIdle /\ InitPrefetchIdle /\ InitPluginVars /\ InitStepVars

SpecQuery == InitQ /\ [][NextQ]_vars

InitR2 == InitParquetWriter /\ InitDedupeIdle /\ InitReaderTwice /\ InitWriterIdle /\ InitPrefetchIdle /\ InitPluginVars /\ InitStepVars

SpecReaderTwice == InitR2 /\ [][NextR2]_vars

InitP == InitParquetWriter /\ InitDedupeIdle /\ InitReaderIdle /\ InitWriterIdle /\ InitPrefetch /\ InitPluginVars /\ InitStepVars

SpecPrefetch == InitP /\ [][NextP]_vars

InitPl == InitParquetWriter /\ InitDedupeIdle /\ InitReaderIdle /\ InitWriterIdle /\ InitPlugin /\ InitStepVars

SpecPlugin == InitPl /\ [][NextPl]_vars

InitDC == InitParquetWriter /\ InitDedupe /\ InitReaderIdle /\ InitWriterIdle /\ InitPrefetchIdle /\ InitPluginVars /\ InitStepVars

SpecDedupeConcurrent == InitDC /\ [][NextDC]_vars

InitWS == InitParquetWriter /\ InitDedupeIdle /\ InitReaderIdle /\ InitWriterIdle /\ InitPrefetchIdle /\ InitPluginVars /\ InitStepVars

SpecWriteSteps == InitWS /\ [][NextWS]_vars

InitW == InitParquetWriter /\ InitDedupe /\ InitReaderIdle /\ InitWriter /\ InitPrefetchIdle /\ InitPluginVars /\ InitStepVars

SpecWriter == InitW /\ [][NextW]_vars

\* ===================================================== properties

WriterIds == 1..Len(writers)
RowIdsOf(w) == {writers[w].rows[i].id : i \in 1..Len(writers[w].rows)}
HoldersOf(r) == {w \in WriterIds : r \in RowIdsOf(w)}
HeldOnce(w, r) ==
    Cardinality({i \in 1..Len(writers[w].rows) : writers[w].rows[i].id = r}) = 1
InOneWriter(r) == \E w \in WriterIds : HoldersOf(r) = {w} /\ HeldOnce(w, r)
OpenedBeforeClose(w) == writers[w].openedIn = "idle"
SwappedOut(w) == writers[w].swapEpoch > 0

C2_NoAppendToSwappedOut ==
    /\ \A d \in Datehours :
         parquetWriterRefs[d] # NoWriter => ~SwappedOut(parquetWriterRefs[d])
    /\ \A w \in WriterIds : \A i \in 1..Len(writers[w].rows) :
         /\ SwappedOut(w) => writers[w].rows[i].epoch < writers[w].swapEpoch
         /\ writers[w].rows[i].epoch = writers[w].rows[1].epoch

\* C2 witness: a partition has a swapped-out writer holding a row and a fresh
\* writer holding a row written after the swap.
C2_Witness ==
    \E w1, w2 \in WriterIds :
        /\ w1 # w2
        /\ writers[w1].datehour = writers[w2].datehour
        /\ SwappedOut(w1) /\ Len(writers[w1].rows) > 0
        /\ Len(writers[w2].rows) > 0
        /\ writers[w2].rows[1].epoch >= writers[w1].swapEpoch

\* C3 as stated: after Close has returned no Write succeeds: no row is appended
\* and no writer is opened once Close has returned.
C3_WriteAfterCloseFails ==
    \A w \in WriterIds :
        /\ writers[w].openedIn # "returned"
        /\ \A i \in 1..Len(writers[w].rows) : writers[w].rows[i].phase # "returned"

C5_ReuseOrOpenWhenAbsent ==
    [][/\ \A d \in Datehours :
            parquetWriterRefs[d] # NoWriter =>
                parquetWriterRefs'[d] \in {parquetWriterRefs[d], NoWriter}
       /\ Len(writers') > Len(writers) =>
            LET n == Len(writers') IN
            /\ parquetWriterRefs[writers'[n].datehour] = NoWriter
            /\ parquetWriterRefs'[writers'[n].datehour] = n
       /\ \A w \in WriterIds :
            Len(writers'[w].rows) > Len(writers[w].rows) =>
                parquetWriterRefs[writers[w].datehour] = w]_vars

\* C5 witness: a second row was appended to the writer that is its key's entry.
C5_Witness ==
    \E d \in Datehours :
        /\ parquetWriterRefs[d] # NoWriter
        /\ Len(writers[parquetWriterRefs[d]].rows) > 1

\* C6 as stated: per partition key at most one writer is opened and not yet
\* finalized at any moment, also while a rotation is finalizing.
C6_OneUnfinalizedPerPartition ==
    \A w1, w2 \in WriterIds :
        (/\ writers[w1].datehour = writers[w2].datehour
         /\ ~Finalized(writers[w1])
         /\ ~Finalized(writers[w2])) => w1 = w2

\* C6 amended: per partition key at most one writer that is opened, not yet
\* finalized and not swapped out by a rotation exists at any moment; writers a
\* rotation has swapped out may still await finalization beside it.
C6_OneUnfinalizedNotSwappedPerPartition ==
    \A w1, w2 \in WriterIds :
        (/\ writers[w1].datehour = writers[w2].datehour
         /\ ~Finalized(writers[w1]) /\ ~SwappedOut(w1)
         /\ ~Finalized(writers[w2]) /\ ~SwappedOut(w2)) => w1 = w2

\* C6 witness: while the rotation is still closing a swapped-out writer of a
\* partition, a Write has opened the partition's fresh writer.
C6_Witness ==
    /\ rotPc = "closing"
    /\ \E w1 \in rotBatch, w2 \in WriterIds :
         /\ writers[w1].datehour = writers[w2].datehour
         /\ ~Finalized(writers[w1])
         /\ parquetWriterRefs[writers[w2].datehour] = w2
         /\ ~Finalized(writers[w2])

\* what the cache holds for the key of the last call
LastKeyCached == CacheHas(dedupeCache, lastCall.key)
LastKeyNext == CacheValue(dedupeCache, lastCall.key)

\* C7: Write delegates a row iff its key is absent from the cache or its row-time
\* is >= the cached next-accept-time (equality is delegated); after a successful
\* delegated write the key's cached next-accept-time is row-time + dedup-duration.
C7_DelegatedIffAbsentOrDue ==
    nCalls > 0 =>
        /\ lastCall.delegated <=> (~lastCall.found \/ lastCall.rowTime >= lastCall.next)
        /\ (lastCall.delegated /\ lastCall.ok) =>
             /\ LastKeyCached
             /\ LastKeyNext = lastCall.rowTime + dedupeDuration

\* C7 witness: a row whose row-time equals the cached next-accept-time was
\* delegated and accepted.
C7_Witness ==
    /\ nCalls > 0
    /\ lastCall.found
    /\ lastCall.rowTime = lastCall.next
    /\ lastCall.delegated
    /\ lastCall.ok

SameRowTwice ==
    /\ nCalls > 1
    /\ prevCall.key = lastCall.key
    /\ prevCall.rowTime = lastCall.rowTime

\* C8: of two consecutive Writes of one key with the same row-time at most one is
\* delegated with success: after an accepted (or suppressed) first write the
\* second returns success without delegating; and the first write of a key is
\* delegated whatever was written for other keys.
C8_SameRowTwiceDelegatedOnce ==
    /\ (SameRowTwice /\ prevCall.ok) => (~lastCall.delegated /\ lastCall.ok)
    /\ (nCalls > 0 /\ lastCall.prevAccepted < 0) => lastCall.delegated

\* C8 witness: key a was accepted, and then the same row again was dropped with
\* success (the first two writes of TestDedupeParquetWriter).
C8_Witness ==
    /\ SameRowTwice
    /\ prevCall.delegated /\ prevCall.ok
    /\ ~lastCall.delegated /\ lastCall.ok

\* C8 witness of the other key: b is delegated at the row-time at which a was
\* just accepted (the third write of TestDedupeParquetWriter).
C8_WitnessOtherKey ==
    /\ nCalls > 1
    /\ prevCall.key # lastCall.key
    /\ prevCall.rowTime = lastCall.rowTime
    /\ prevCall.delegated /\ prevCall.ok
    /\ lastCall.delegated /\ lastCall.ok

\* C9: when the latest accepted row of key k has row-time t, a Write of k with a
\* row-time >= t + dedup-duration is delegated again, and once accepted the
\* window is re-armed from the new row-time.
C9_DelegatedAgainAfterWindow ==
    (/\ nCalls > 0
     /\ lastCall.prevAccepted >= 0
     /\ lastCall.rowTime >= lastCall.prevAccepted + dedupeDuration) =>
        /\ lastCall.delegated
        /\ lastCall.ok => (LastKeyCached /\ LastKeyNext = lastCall.rowTime + dedupeDuration)

\* C9 witness: a key still cached is accepted again dedup-duration or more after
\* its latest accepted row.
C9_Witness ==
    /\ nCalls > 1
    /\ lastCall.found
    /\ lastCall.prevAccepted >= 0
    /\ lastCall.rowTime >= lastCall.prevAccepted + dedupeDuration
    /\ lastCall.delegated /\ lastCall.ok

Apart(k) ==
    /\ k \notin delegatedTwice
    /\ \A t1, t2 \in delegatedTimes[k] : t1 < t2 => t2 - t1 >= dedupeDuration

\* C10 as stated: for any cache size, any two rows of one key accepted by the
\* wrapped writer have row-times at least dedup-duration apart.
C10_AcceptedRowsApart == \A k \in DedupeKeys : Apart(k)

\* C10 amended: any two rows accepted by the wrapped writer for a key that the
\* LRU cache has never evicted have row-times at least dedup-duration apart.
C10_AcceptedRowsApartUnlessEvicted == \A k \in DedupeKeys \ evictedKeys : Apart(k)

\* C10 witness: a key never evicted has two accepted rows.
C10_Witness ==
    \E k \in DedupeKeys \ evictedKeys : Cardinality(delegatedTimes[k]) > 1

\* the keys of a cache with their next-accept-times, whatever their recency
CacheEntries(cache) == {cache[i] : i \in 1..Len(cache)}

DedupeStep == nCalls' = nCalls + 1

\* C33 as stated: a Write whose delegated write fails leaves the dedup cache
\* as it was.
C33_FailedWriteLeavesCache ==
    [][(DedupeStep /\ lastCall'.delegated /\ ~lastCall'.ok)
          => dedupeCache' = dedupeCache]_vars

\* C33 amended: a Write whose delegated write fails returns the error and
\* leaves every key of the dedup cache with the next-accept-time it had (the
\* lookup may have made the key the most recently used one); the same row
\* written again next is delegated again.
C33_FailedWriteLeavesEntries ==
    [][DedupeStep =>
          /\ (lastCall'.delegated /\ ~lastCall'.ok)
                => CacheEntries(dedupeCache') = CacheEntries(dedupeCache)
          /\ (/\ lastCall.delegated /\ ~lastCall.ok
              /\ lastCall'.key = lastCall.key
              /\ lastCall'.rowTime = lastCall.rowTime)
                => lastCall'.delegated]_vars

\* C33 witness: the rewrite of a cached key failed and was made again with
\* success.
C33_Witness ==
    /\ nCalls > 1
    /\ prevCall.found /\ prevCall.delegated /\ ~prevCall.ok
    /\ lastCall.key = prevCall.key
    /\ lastCall.rowTime = prevCall.rowTime
    /\ lastCall.found /\ lastCall.delegated /\ lastCall.ok

\* the cached next-accept-time of k is at least every one cached for k before
NotBelowEarlier(k) ==
    CacheHas(dedupeCache, k) =>
        \A t \in delegatedTimes[k] : CacheValue(dedupeCache, k) >= t + dedupeDuration

\* C35 as stated: over any sequence of Writes the cached next-accept-time of a
\* key never decreases.
C35_NextNeverDecreases == \A k \in DedupeKeys : NotBelowEarlier(k)

\* C35 amended: the cached next-accept-time of a key that the LRU cache has
\* never evicted never decreases; a row whose row-time lies before the cached
\* next-accept-time is discarded with success and leaves the entry unchanged,
\* and an entry changes only by a row-time at or beyond it, to a later time.
C35_NextNeverDecreasesWhileCached ==
    /\ [](\A k \in DedupeKeys \ evictedKeys : NotBelowEarlier(k))
    /\ [][DedupeStep =>
             /\ (lastCall'.found /\ lastCall'.rowTime < lastCall'.next) =>
                    /\ ~lastCall'.delegated
                    /\ lastCall'.ok
                    /\ CacheHas(dedupeCache', lastCall'.key)
                    /\ CacheValue(dedupeCache', lastCall'.key) = lastCall'.next
             /\ \A k \in DedupeKeys :
                    (/\ CacheHas(dedupeCache, k)
                     /\ CacheHas(dedupeCache', k)
                     /\ CacheValue(dedupeCache', k) # CacheValue(dedupeCache, k)) =>
                        /\ lastCall'.key = k
                        /\ lastCall'.rowTime >= CacheValue(dedupeCache, k)
                        /\ CacheValue(dedupeCache', k) > CacheValue(dedupeCache, k)]_vars

\* C35 witness: a key never evicted had its window moved forward, and a row
\* before the new next-accept-time was then discarded.
C35_Witness ==
    \E k \in DedupeKeys \ evictedKeys :
        /\ Cardinality(delegatedTimes[k]) > 1
        /\ lastCall.key = k
        /\ lastCall.found
        /\ ~lastCall.delegated
        /\ lastCall.ok
        /\ lastCall.rowTime < lastCall.next

\* C36: Write hands the caller's maxBufferUntil to the wrapped writer as it is
\* when the key is not cached, and maxBufferUntil + dedupeRewriteBufferDuration
\* when the key is cached and the row-time is not before its next-accept-time;
\* a suppressed row is not handed on at all.
C36_ForwardedMaxBufferUntil ==
    nCalls > 0 =>
        /\ ~lastCall.found =>
               /\ lastCall.delegated
               /\ lastCall.forwarded = lastCall.maxBufferUntil
        /\ (lastCall.found /\ lastCall.rowTime >= lastCall.next) =>
               /\ lastCall.delegated
               /\ lastCall.forwarded = lastCall.maxBufferUntil + DedupeRewriteBufferDuration
        /\ (lastCall.found /\ lastCall.rowTime < lastCall.next) =>
               /\ ~lastCall.delegated
               /\ lastCall.forwarded = NoForward

\* C36 witness: the first write of a key, then its re-write after the window.
C36_Witness ==
    /\ nCalls > 1
    /\ ~prevCall.found /\ prevCall.ok
    /\ prevCall.forwarded = prevCall.maxBufferUntil
    /\ lastCall.key = prevCall.key
    /\ lastCall.found /\ lastCall.delegated /\ lastCall.ok
    /\ lastCall.forwarded = lastCall.maxBufferUntil + DedupeRewriteBufferDuration

\* both callers wrote the same row and neither call failed
SameRowByBoth ==
    /\ \A c \in Callers : dedupeCallers[c].pc = "returned" /\ ~dedupeCallers[c].err
    /\ dedupeCallers[1].key = dedupeCallers[2].key
    /\ dedupeCallers[1].rowTime = dedupeCallers[2].rowTime

\* C34: two concurrent Write calls with one dedupe key and one row-time, the
\* key absent at first, result in exactly one delegated write.
C34_ConcurrentSameRowDelegatedOnce ==
    SameRowByBoth => Cardinality({c \in Callers : dedupeCallers[c].delegated}) = 1

\* ================================================= properties, Writer

ObjectsIn(dataset) == {o \in wsObjects : o.dataset = dataset}

\* C11: n successful WriteSpan calls for spans of one (operation name, span
\* kind, service name) and one start time leave n span rows and one operation
\* row, and Close uploads them as one object per dataset.
C11_SpanRowsAndOneOperationRow ==
    (wsAllOk /\ wsAllSame /\ wsCalls >= 1) =>
        /\ (wsPc = "idle" =>
                /\ Len(spansOpen[S3PartitionKey(wsFirst.startTime)]) = wsCalls
                /\ Len(operationsOpen[S3PartitionKey(wsFirst.startTime)]) = 1)
        /\ ((wsPc = "closed" /\ wsCloseOk) =>
                /\ \E o \in ObjectsIn("spans") :
                       ObjectsIn("spans") = {o} /\ Len(o.rows) = wsCalls
                /\ \E o \in ObjectsIn("operations") :
                       ObjectsIn("operations") = {o} /\ Len(o.rows) = 1)

C11_Witness ==
    /\ wsPc = "closed"
    /\ wsCloseOk
    /\ wsAllOk
    /\ wsAllSame
    /\ wsCalls >= 2
    /\ \E o \in ObjectsIn("operations") : Len(o.rows) = 1
    /\ \E o \in ObjectsIn("spans") : Len(o.rows) = wsCalls

\* ============================================ properties, query cache

LookupReturned == lookupPc = "returned"

\* the three conditions of a reusable execution, stated on the execution
Fresh(e) == e.sub >= ttlTime

NotFailed(e) == e.state \notin {"FAILED", "CANCELLED"}

Matches(e) ==
    \E i \in 1..(Len(e.query) + 1) : \E j \in (i - 1)..Len(e.query) :
        SubSeq(e.query, i, j) = lookupKey

Eligible(e) == Fresh(e) /\ NotFailed(e) /\ Matches(e)

EligiblePlaces == {i \in 1..Len(examined) : Eligible(examined[i])}

FirstEligible ==
    IF EligiblePlaces = {}
    THEN NoExecution
    ELSE examined[CHOOSE i \in EligiblePlaces : \A j \in EligiblePlaces : i <= j]

\* the worker looped over a batch and met neither a match nor an expired execution
Exhausted ==
    /\ workerPc = "done"
    /\ examined # <<>>
    /\ EligiblePlaces = {}
    /\ \A i \in 1..Len(examined) : Fresh(examined[i])

\* the data rows the engine holds for an execution
DataRows(id) == <<[exec |-> id, row |-> 1], [exec |-> id, row |-> 2]>>

\* C12: an execution Lookup returns is neither FAILED nor CANCELLED, was
\* submitted at or after now - ttl and has a query text containing key; when
\* no execution of the examined batch meets all three, Lookup returns none.
C12_ReturnedExecutionEligible ==
    LookupReturned =>
        /\ (lookupResult # NoExecution => Eligible(lookupResult))
        /\ (EligiblePlaces = {} => lookupResult = NoExecution)

C12_Witness ==
    /\ LookupReturned
    /\ lookupResult # NoExecution
    /\ Len(examined) = 2
    /\ examined[1].state = "CANCELLED"
    /\ lookupResult = examined[2]

\* C13: Lookup returns the first execution of the examined batch, in the
\* engine's order, that is fresh, not FAILED/CANCELLED and matches key; a
\* RUNNING execution without completion time is returned before an older
\* completed one that matches too.
C13_FirstEligibleReturned ==
    (LookupReturned /\ lookupErr = "none") => lookupResult = FirstEligible

C13_Witness ==
    /\ LookupReturned
    /\ Len(examined) = 2
    /\ lookupResult = examined[1]
    /\ lookupResult.state = "RUNNING"
    /\ ~lookupResult.completed
    /\ Eligible(examined[2])
    /\ examined[2].completed
    /\ examined[2].sub < examined[1].sub

\* places of the batch the loop reaches with no match before them
PlacesMet ==
    {i \in 1..Len(examined) : \A j \in 1..(i - 1) : ~Eligible(examined[j])}

C15_NoListedPageLeftUnexamined ==
    (LookupReturned /\ lookupErr = "none" /\ Exhausted)
        => queryExecutionIdChunks = <<>>

\* C16: Lookup always returns: when the worker has finished, the page fetcher
\* is cancelled or runs to completion, it is never left blocked on the full
\* id-chunk channel.
C16_FetcherNeverBlockedForever ==
    ~(/\ lookupPc = "running"
      /\ workerPc \in {"done", "failed"}
      /\ fetchPc = "send"
      /\ ~fetchCancelled
      /\ Len(queryExecutionIdChunks) = ChunkCapacity)

\* C17: when no execution the engine lists is fresh, non-failed and matching,
\* Lookup returns none without error and the reader goes on to start one
\* execution: a Lookup whose worker found nothing to reuse is never left
\* waiting forever for its page fetcher.
C17_MissLookupReturns ==
    ~(/\ Exhausted
      /\ lookupPc = "running"
      /\ readerPc = "lookup"
      /\ startCalls = 0
      /\ fetchPc = "send"
      /\ ~fetchCancelled
      /\ Len(queryExecutionIdChunks) = ChunkCapacity)

\* the part of C17 that holds: once such a Lookup has returned, it returned
\* none, and the reader call that returns rows has started exactly one
\* execution and returns the rows of that execution.
C17_MissStartsOneExecution ==
    (LookupReturned /\ lookupErr = "none" /\ EligiblePlaces = {}) =>
        /\ lookupResult = NoExecution
        /\ startCalls <= 1
        /\ (readerPc \in {"wait", "fetch"} =>
                startCalls = 1 /\ queryExecution.id = callStarted)
        /\ ((readerPc = "returned" /\ readerErr = "none") =>
                /\ startCalls = 1
                /\ callStarted > 0
                /\ delivered = DataRows(callStarted))

C17_Witness ==
    /\ LookupReturned
    /\ readerPc = "returned"
    /\ readerErr = "none"
    /\ examined # <<>>
    /\ EligiblePlaces = {}
    /\ startCalls = 1
    /\ delivered = DataRows(callStarted)

\* C18: when Lookup returns an execution, queryAthenaCached starts none: it
\* waits for the returned execution and delivers the rows of that execution.
C18_HitStartsNoExecution ==
    (LookupReturned /\ lookupResult # NoExecution) =>
        /\ startCalls = 0
        /\ readerPc \in {"wait", "fetch", "returned"}
        /\ queryExecution.id = lookupResult.id
        /\ ((readerPc = "returned" /\ readerErr = "none") =>
                delivered = DataRows(lookupResult.id))

C18_Witness ==
    /\ LookupReturned
    /\ lookupResult.state = "RUNNING"
    /\ readerPc = "returned"
    /\ readerErr = "none"
    /\ startCalls = 0
    /\ delivered = DataRows(lookupResult.id)

\* C19: two GetServices calls one after the other, the second within
\* services-query-ttl of the first, start one execution in total.
C19_SecondCallStartsNone ==
    (/\ Len(callLog) = 2
     /\ callLog[1].err = "none"
     /\ callLog[2].err = "none"
     /\ callLog[1].started > 0
     /\ callLog[2].at - callLog[1].at <= servicesQueryTTL)
        => (callLog[2].started = 0 /\ startCalls = 1)

\* C20: when BatchGetQueryExecution leaves ids unprocessed, Lookup returns an
\* error and no execution, and the reader call fails without starting a query.
C20_UnprocessedFailsCall ==
    (LookupReturned /\ unprocessed) =>
        /\ lookupErr # "none"
        /\ lookupResult = NoExecution
        /\ readerPc = "returned"
        /\ readerErr = "lookup"
        /\ startCalls = 0
        /\ delivered = <<>>

C20_Witness ==
    /\ LookupReturned
    /\ unprocessed
    /\ lookupErr = "unprocessed"
    /\ readerErr = "lookup"
    /\ readerOp = "GetDependencies"

\* the page fetcher left its loop although the paginator had more pages
EarlyExit == fetchPc = "done" /\ nextToken

\* C38: a page fetcher that finds fetchCtx done, in NextPage or in its
\* select, ends without an error; so when the worker has matched an execution
\* and cancelled the listing, Lookup returns that execution and no error
\* although more pages were there.
C38_CancelledListingIsEarlyExit ==
    /\ [][(/\ fetchPc \in {"next", "send"}
           /\ fetchPc' \notin {"next", "send"}
           /\ fetchCancelled
           /\ firstPage \/ nextToken) =>
              /\ fetchPc' = "done"
              /\ lookupErr' = lookupErr]_vars
    /\ []((LookupReturned /\ EarlyExit /\ latestQueryExecution # NoExecution) =>
              /\ lookupErr = "none"
              /\ lookupResult = latestQueryExecution)

\* C38 witness: the worker matched an execution of the first page and
\* cancelled; every page listed was sent, the next NextPage failed with
\* context.Canceled, and Lookup returned the match.
C38_Witness ==
    /\ LookupReturned
    /\ EarlyExit
    /\ pagesListed = Len(queryExecutionIdChunks) + 1
    /\ pagesListed >= 2
    /\ lookupErr = "none"
    /\ lookupResult # NoExecution
    /\ lookupResult = latestQueryExecution

\* ================================================ properties, polling

\* the engine's present description of the execution the reader waits for
EngineCompleted ==
    /\ queryExecution # NoExecution
    /\ GetQueryExecution(queryExecution.id).completed

\* C21: result pages are requested only for an execution the reader has seen
\* with a completion time, which the engine has then set; an execution found
\* RUNNING, fresh or cached, is polled first; and once the engine has
\* completed the execution the polling loop ends.
C21_ResultsOnlyAfterCompletion ==
    /\ [](readerPc = "fetch" => (queryExecution.completed /\ EngineCompleted))
    /\ []((readerPc = "returned" /\ delivered # <<>>) =>
              (queryExecution.completed /\ EngineCompleted))
    /\ ((readerPc = "wait" /\ EngineCompleted) ~> (readerPc # "wait"))

C21_Witness ==
    /\ readerPc = "fetch"
    /\ lookupResult # NoExecution
    /\ lookupResult.state = "RUNNING"
    /\ ~lookupResult.completed
    /\ queryExecution.id = lookupResult.id
    /\ queryExecution.completed

\* ======================================= properties, reader operations

\* the rows of the pages, page after page
RECURSIVE RowsOfPages(_)
RowsOfPages(pages) ==
    IF pages = <<>>
    THEN <<>>
    ELSE RowsOfPages(SubSeq(pages, 1, Len(pages) - 1)) \o pages[Len(pages)]

\* a fetchQueryResult of the running operation got its pages
Fetched == enginePages # <<>>

\* C22: the rows delivered are the engine's rows of all pages, in page order,
\* without the first row of the first page: one row less than the engine
\* returned, and never the header row.
C22_HeaderRowDropped ==
    Fetched =>
        /\ Len(delivered) = Len(RowsOfPages(enginePages)) - 1
        /\ \A k \in 1..Len(delivered) :
              /\ delivered[k] = RowsOfPages(enginePages)[k + 1]
              /\ delivered[k] # enginePages[1][1]

C22_Witness ==
    /\ readerOp = "FindTraces"
    /\ phase = 2
    /\ readerPc = "returned"
    /\ readerErr = "none"
    /\ Len(enginePages) = 2
    /\ Len(enginePages[1]) = 1
    /\ Len(delivered) = 2

\* the query of the running operation returned no data row
NoDataRows == Fetched /\ Len(RowsOfPages(enginePages)) = 1

\* C39: when the trace id query of FindTraces has returned no id, the call
\* starts no further query: one StartQueryExecution was issued, and it stays
\* the only one.
C39_SpanQueryOnlyWithTraceIDs ==
    (readerOp = "FindTraces" /\ phase = 2 /\ traceIDs = <<>>) => startCalls = 1

\* C23: GetTrace with no data row returns the trace-not-found error;
\* FindTraceIDs and FindTraces whose trace id query returns no data row return
\* an empty result and no error.
C23_NoRowsNotFoundOrEmpty ==
    /\ (readerOp = "GetTrace" /\ readerPc = "returned" /\ NoDataRows)
          => readerErr = "ErrTraceNotFound"
    /\ (readerOp = "FindTraceIDs" /\ readerPc = "returned" /\ NoDataRows)
          => (readerErr = "none" /\ opResult.list = <<>>)
    /\ (readerOp = "FindTraces" /\ readerPc = "returned" /\ phase = 2
            /\ traceIDs = <<>>)
          => (readerErr = "none" /\ opResult.traces = {})

\* the row is of the requested service and, when one is requested, kind
Requested(v) ==
    /\ v.data[1] = query.ServiceName
    /\ (query.SpanKind = "" \/ v.data[3] = query.SpanKind)

RequestedRows == SelectSeq(delivered, Requested)

\* C24: GetOperations returns the (operation name, span kind) pairs of exactly
\* the result rows of the requested service and, when a kind is requested, of
\* that kind, in the order of the rows.
C24_OperationsOfServiceAndKind ==
    (readerOp = "GetOperations" /\ readerPc = "returned" /\ readerErr = "none") =>
        /\ ~opResult.nil
        /\ Len(opResult.list) = Len(RequestedRows)
        /\ \A k \in 1..Len(RequestedRows) :
              /\ opResult.list[k].Name = RequestedRows[k].data[2]
              /\ opResult.list[k].SpanKind = RequestedRows[k].data[3]

C24_Witness ==
    /\ readerOp = "GetOperations"
    /\ readerPc = "returned"
    /\ readerErr = "none"
    /\ query.SpanKind = "server"
    /\ Len(delivered) = 2
    /\ delivered[1].data[1] = query.ServiceName
    /\ delivered[1].data[3] = "server"
    /\ delivered[2].data[1] # query.ServiceName
    /\ Len(opResult.list) = 1

\* the start times the trace id query uses: those given, or the defaults
UsedMin == IF IsZero(query.GivenMin) THEN now - maxSpanAge ELSE query.GivenMin
UsedMax == IF IsZero(query.GivenMax) THEN now ELSE query.GivenMax

\* C25: the window of the span query of FindTraces runs from the partition of
\* (start-time-min - max-trace-duration) to that of (start-time-max +
\* max-trace-duration), missing start times being now - max-span-age and now;
\* it contains the window of the trace id query.
C25_SpanWindowWidened ==
    (readerOp = "FindTraces" /\ Len(windows) = 2) =>
        /\ windows[1].lo = FormatDatehour(UsedMin)
        /\ windows[1].hi = FormatDatehour(UsedMax)
        /\ windows[2].lo = FormatDatehour(UsedMin - maxTraceDuration)
        /\ windows[2].hi = FormatDatehour(UsedMax + maxTraceDuration)
        /\ windows[2].lo <= windows[1].lo
        /\ windows[2].hi >= windows[1].hi

C25_Witness ==
    /\ readerOp = "FindTraces"
    /\ readerPc = "returned"
    /\ readerErr = "none"
    /\ Len(windows) = 2
    /\ IsZero(query.GivenMin)
    /\ query.GivenMax = 1
    /\ maxTraceDuration = 2
    /\ windows[2].lo < windows[1].lo
    /\ windows[2].hi > windows[1].hi
    /\ opResult.traces # {}

\* ============================================= properties, prefetcher

\* C26: once Stop was called on an enabled prefetcher, the prefetcher starts
\* no GetDependencies call any more.
C26_NoCallAfterStop ==
    (enabled /\ stopPc # "idle") => called = calledAtStop

\* the prefetcher is enabled, started and running, and every tick so far found
\* it waiting in its select
InStep == enabled /\ prefetchStarted /\ stopPc = "idle" /\ ~overrun

\* C27: an enabled prefetcher calls GetDependencies once after Start and once
\* per elapsed interval: while every prefetch ends before the next tick, k + 1
\* calls have been made when the prefetcher is through with the k-th tick, k
\* while it still has that tick or its sleep before it; the calls never
\* overlap and there are never more than intervals + 1 of them.
C27_OneCallPerInterval ==
    /\ called - calledReturned \in {0, 1}
    /\ (prefetchPc = "query") = (called - calledReturned = 1)
    /\ enabled => called <= intervals + 1
    /\ (InStep /\ prefetchPc \in {"query", "select"} /\ ~prefetchTickPending)
          => called = intervals + 1
    /\ (InStep /\ (prefetchPc = "sleep" \/ prefetchTickPending))
          => called = intervals

C27_Witness ==
    /\ InStep
    /\ prefetchPc = "select"
    /\ ~prefetchTickPending
    /\ intervals = 2
    /\ called = 3
    /\ calledReturned = 3

\* C28: a disabled prefetcher has no goroutine and calls nothing, and its Stop
\* returns without touching the ticker or the done channel.
C28_DisabledDoesNothing ==
    ~enabled =>
        /\ prefetchPc = "none"
        /\ called = 0
        /\ stopPc \in {"idle", "returned"}
        /\ ~prefetchTickerStopped

C28_Witness ==
    /\ ~enabled
    /\ prefetchStarted
    /\ intervals >= 1
    /\ stopPc = "returned"
    /\ called = 0

\* ================================================ properties, S3Plugin.Close

\* C29: S3Plugin.Close returns only after the Close of the span writer, the
\* Close of the operations writer and the Stop of the prefetcher have returned;
\* by then both rotation goroutines and the prefetch goroutine have left their
\* loops with no rotation batch and no prefetch call unfinished; and the error
\* returned is non-nil exactly when one of the writers' Close returned one.
C29_CloseWaitsForAllAndAggregates ==
    pluginPc = "returned" =>
        /\ closePc = "returned"
        /\ operationsClosePc \in {"ok", "err"}
        /\ stopPc = "returned"
        /\ rotPc = "exited"
        /\ rotBatch = {}
        /\ operationsRotPc = "exited"
        /\ enabled => (prefetchPc = "exited" /\ calledReturned = called)
        /\ pluginErr <=> (closeResult = "err" \/ operationsClosePc = "err")

\* Close was called during a rotation of the span writer and during a prefetch
\* query, and has returned the error of the operations writer alone
C29_Witness ==
    /\ pluginPc = "returned"
    /\ closeFound.rotation
    /\ closeFound.prefetch
    /\ closeResult = "ok"
    /\ operationsClosePc = "err"
    /\ pluginErr

\* ==================================== properties, Write step by step

\* C31: the rotation holds the buffer mutex from its Lock to the swap and no
\* longer, so not while it closes the swapped-out writers; a Write holds the
\* mutex from its Lock to its return, and the map it saw at its Lock is the map
\* it opens into and appends into: no swap falls in between.
C31_MutexAroundSwapAndWholeWrite ==
    /\ bufferMutex = "rotate" <=> rotPc = "locked"
    /\ writeCall.pc # "idle" <=> bufferMutex = "write"
    /\ writeCall.pc \in {"get", "file"} => parquetWriterRefs = writeCall.before
    /\ writeCall.pc = "append" =>
           /\ parquetWriterRefs =
                  StoredRefs(writeCall.before, writeCall.datehour, writeCall.ref)
           /\ writers[writeCall.ref].swapEpoch = 0

\* C31 witness: while swapped-out writers are still being closed, a Write has
\* opened a writer in the new map, appended its row and returned.
C31_Witness ==
    /\ rotPc = "closing"
    /\ rotBatch # {}
    /\ writeCall.pc = "idle"
    /\ lastWrite.err = "none"
    /\ \E d \in Datehours :
          /\ parquetWriterRefs[d] # NoWriter
          /\ Len(writers[parquetWriterRefs[d]].rows) = 1

\* a step of the Write call in progress
WriteStep == writeCall' # writeCall

\* partition key of the Write call that takes the step
StepDatehour == IF writeCall.pc = "idle" THEN writeCall'.datehour ELSE writeCall.datehour

\* C37: a Write leaves the entries of every other partition and their writers
\* as they are and appends its row to the writer that the map holds for the
\* partition key of its row-time; the writers the map holds stay open until a
\* rotation swaps them out or Close closes them.
C37_OtherPartitionsUntouched ==
    /\ [](closePc \in {"idle", "send", "lock"} =>
             \A d \in Datehours :
                 parquetWriterRefs[d] # NoWriter =>
                     /\ ~writers[parquetWriterRefs[d]].stopped
                     /\ ~writers[parquetWriterRefs[d]].closed
                     /\ writers[parquetWriterRefs[d]].datehour = d)
    /\ [][WriteStep =>
             /\ \A d \in Datehours \ {StepDatehour} :
                    /\ parquetWriterRefs'[d] = parquetWriterRefs[d]
                    /\ parquetWriterRefs[d] # NoWriter =>
                           writers'[parquetWriterRefs[d]] = writers[parquetWriterRefs[d]]
             /\ (writeCall.pc = "append" /\ lastWrite'.err = "none") =>
                    /\ parquetWriterRefs'[S3PartitionKey(writeCall.time)] = writeCall.ref
                    /\ Len(writers'[writeCall.ref].rows) =
                           Len(writers[writeCall.ref].rows) + 1]_vars

\* C37 witness: a writer took a row, a row of the other hour opened a second
\* writer, and the first writer then took another row of its own hour.
C37_Witness ==
    \E d1, d2 \in Datehours :
        /\ d1 # d2
        /\ parquetWriterRefs[d1] # NoWriter
        /\ parquetWriterRefs[d2] # NoWriter
        /\ parquetWriterRefs[d1] < parquetWriterRefs[d2]
        /\ Len(writers[parquetWriterRefs[d1]].rows) = 2
        /\ Len(writers[parquetWriterRefs[d2]].rows) = 1
        /\ writers[parquetWriterRefs[d1]].rows[2].id >
               writers[parquetWriterRefs[d2]].rows[1].id

\* C40: a Write that cannot open a writer returns an error with the map and
\* the writers as they were at its Lock, no entry for its partition, and the
\* file, if one was opened, closed; the next Write of that partition does not
\* find a writer and opens one again.
C40_FailedOpenLeavesNoEntry ==
    /\ [][(writeCall.pc # "idle" /\ writeCall'.pc = "idle" /\ lastWrite'.err = "get") =>
             /\ parquetWriterRefs' = writeCall.before
             /\ parquetWriterRefs'[writeCall.datehour] = NoWriter
             /\ writers' = writers
             /\ lastWrite'.file \in {"none", "closed"}]_vars
    /\ []((/\ lastWrite.err = "get"
           /\ writeCall.pc \in {"file", "append"}
           /\ writeCall.datehour = lastWrite.datehour) =>
              /\ ~writeCall.hit
              /\ writeCall.file \in {"open", "stored"})

\* C40 witness: NewParquetWriter failed and the file was closed; the next Write
\* of the partition has opened a writer.
C40_Witness ==
    /\ lastWrite.err = "get"
    /\ lastWrite.file = "closed"
    /\ writeCall.pc = "append"
    /\ writeCall.datehour = lastWrite.datehour
    /\ writeCall.file = "stored"

\* C32: Close stops the ticker first; the rotation goroutine takes the done
\* signal only in its select, with no rotation in progress, and is gone from
\* then on: Close locks and closes the open writers with no rotation running,
\* and nothing is rotated after Close has returned.
C32_CloseAfterRotationEnded ==
    /\ [](closePc # "idle" => tickerStopped)
    /\ [](closePc \in {"lock", "closing", "returned"} =>
             /\ rotPc = "exited"
             /\ rotBatch = {}
             /\ bufferMutex # "rotate")
    /\ [][(closePc = "send" /\ closePc' # "send") =>
             /\ rotPc = "select"
             /\ rotBatch = {}]_vars
    /\ [][closePc = "returned" =>
             /\ swaps' = swaps
             /\ rotPc' = rotPc]_vars

\* C32 witness: Close has returned after it had to wait for a rotation: a
\* writer opened while Close was blocked in its send was swapped out and
\* finalized by the rotation.
C32_Witness ==
    /\ closePc = "returned"
    /\ \E w \in 1..Len(writers) :
          /\ writers[w].openedIn = "send"
          /\ writers[w].swapEpoch = 1
          /\ Finalized(writers[w])

\* ============================== properties, closing of a rotation batch

\* C30: closing a swapped-out set (on a tick, or the map in Close) attempts
\* the close of every writer of the set: the loop over the set ends only when
\* no writer besides the one it has just dealt with is left, also when that
\* one failed.
C30_EveryWriterOfBatchAttempted ==
    [][/\ (rotPc = "closing" /\ rotPc' = "select") => Cardinality(rotBatch) <= 1
       /\ (closePc = "closing" /\ closePc' = "returned") =>
              Cardinality(closeBatch) <= 1]_vars

====
